---- MODULE Spec2Model ----
(***************************************************************************)
(* Call-trace tree engine (crates/brontes-types/src/tree.rs) and the       *)
(* composition engine (crates/brontes-inspect/src/composer/mod.rs).        *)
(*                                                                         *)
(* Spec       the block tree: insert_root, insert_node, finalize_tree,     *)
(*            inspect, remove_duplicate_data                               *)
(* SpecTable  on_orchestra_resolution, one table entry per step            *)
(* SpecPoll   the Composer future: inspector tasks and poll                *)
(* SpecConfig on_orchestra_resolution under every table the macro accepts  *)
(* SpecFee    finalize_tree over the gas prices of a block                 *)
(* SpecGas    GasDetails::gas_paid                                         *)
(* SpecRemove Root::remove_duplicate_data on one finalized Root            *)
(* SpecClassify Root::dyn_classify on one Root                             *)
(* SpecFinalize Root::finalize called again and again on one Root          *)
(***************************************************************************)
EXTENDS Integers, Sequences, FiniteSets, TLC

VARIABLES
    roots,              \* TimeTree.roots: Vec<Root<V>>
    avg_priority_fee,   \* TimeTree.avg_priority_fee
    phase,              \* the builder's position: building, finalized, panicked,
                        \* hung (a call that never returns)
    op,                 \* the last call made on the tree, with its arguments
    result,             \* the value the last inspect or dyn_classify call returned
    callOrder,          \* every frame so far was inserted in call (preorder) order
    mev_filter,         \* static ref MEV_FILTER: the table the process was built with
    sorted_mev,         \* on_orchestra_resolution: HashMap<MevType, Vec<bundle>>
    entry,              \* on_orchestra_resolution: MEV_FILTER entries applied so far
    rpc,                \* on_orchestra_resolution: position in the function
    before,             \* sorted_mev as it was before the last table entry; in
                        \* SpecRemove and SpecClassify, roots as they were before
                        \* the call
    output,             \* the bundle sequence of Poll::Ready
    tasks,              \* the Composer future: the state of every spawned task
    collected,          \* the Composer future: what scope.collect() returned
    composer,           \* the Composer future: new, pending, ready, panicked
    runs,               \* how many times on_orchestra_resolution ran
    lastPoll            \* what the last poll returned, and the tasks that had
                        \* ended at the last poll that returned Pending

treeVars == <<roots, avg_priority_fee, phase, op, result, callOrder>>
tableVars == <<mev_filter, sorted_mev, entry, rpc, before, output>>
pollVars == <<tasks, collected, composer, runs, lastPoll>>
vars == <<treeVars, tableVars, pollVars>>

(***************************************************************************)
(* Bounds                                                                  *)
(***************************************************************************)
MaxNodes == 4       \* frames of one block, heads included
MaxRoots == 2       \* transactions of one block
MaxDepth == 3       \* length of a trace_address

(***************************************************************************)
(* Sequence helpers                                                        *)
(***************************************************************************)
Range(s) == {s[i] : i \in DOMAIN s}

Last(s) == s[Len(s)]

\* Vec::remove(i), i counted from 1
RemoveAt(s, i) == SubSeq(s, 1, i - 1) \o SubSeq(s, i + 1, Len(s))

RECURSIVE Perms(_)
\* every order in which a HashSet can be iterated
Perms(S) ==
    IF S = {} THEN {<<>>}
    ELSE UNION {{<<x>> \o p : p \in Perms(S \ {x})} : x \in S}

RECURSIVE Product(_)
\* the sequences that take their i-th element from the i-th set
Product(sets) ==
    IF sets = <<>> THEN {<<>>}
    ELSE {<<x>> \o p : x \in Head(sets), p \in Product(Tail(sets))}

RECURSIVE Concat(_)
\* the sequences of a sequence, one after another
Concat(ss) == IF ss = <<>> THEN <<>> ELSE Head(ss) \o Concat(Tail(ss))

RECURSIVE SumSeq(_)
SumSeq(s) == IF s = <<>> THEN 0 ELSE Head(s) + SumSeq(Tail(s))

(***************************************************************************)
(* Node                                                                    *)
(***************************************************************************)
\* struct Node as the classifier creates it; the action of frame i is i
NewNode(index, trace_address) ==
    [inner |-> <<>>, finalized |-> FALSE, index |-> index, subactions |-> <<>>,
     trace_address |-> trace_address, data |-> index]

RECURSIVE GetAllSubActions(_)
RECURSIVE FlatSubActions(_, _)
\* self.inner.iter().flat_map(|inner| inner.get_all_sub_actions()), from child i
FlatSubActions(inner, i) ==
    IF i > Len(inner) THEN <<>>
    ELSE GetAllSubActions(inner[i]) \o FlatSubActions(inner, i + 1)

\* a faulty variant: the node's own action goes first
GetAllSubActionsOwnFirst(self) ==
    IF self.finalized THEN self.subactions
    ELSE <<self.data>> \o FlatSubActions(self.inner, 1)

\* a faulty variant: the node's own action is pushed onto the stored sequence too
GetAllSubActionsPushAfter(self) ==
    (IF self.finalized THEN self.subactions ELSE FlatSubActions(self.inner, 1))
        \o <<self.data>>

GetAllSubActions(self) ==
    IF self.finalized THEN self.subactions
    ELSE FlatSubActions(self.inner, 1) \o <<self.data>>

RECURSIVE Finalize(_)
\* a faulty variant: the children are not finalized
FinalizeSelfOnly(self) ==
    [self EXCEPT !.subactions = GetAllSubActions(self), !.finalized = TRUE]

Finalize(self) ==
    [inner |-> [i \in DOMAIN self.inner |-> Finalize(self.inner[i])],
     finalized |-> TRUE,
     index |-> self.index,
     subactions |-> GetAllSubActions(self),
     trace_address |-> self.trace_address,
     data |-> self.data]

RECURSIVE PathExists(_, _)
\* get_all_inner_nodes returns: no remove(0) on an empty vector, no unwrap of None
PathExists(self, trace_addr) ==
    IF Len(trace_addr) = 1 THEN TRUE
    ELSE /\ Len(trace_addr) > 1
         /\ Head(trace_addr) + 1 <= Len(self.inner)
         /\ PathExists(self.inner[Head(trace_addr) + 1], Tail(trace_addr))

RECURSIVE GetAllInnerNodes(_, _, _)
\* a faulty variant: the node is placed at the position the last path element names
GetAllInnerNodesAtPosition(self, n, trace_addr) ==
    IF Len(trace_addr) = 1
    THEN LET k == IF Head(trace_addr) <= Len(self.inner)
                  THEN Head(trace_addr) ELSE Len(self.inner)
         IN [self EXCEPT !.inner =
                SubSeq(self.inner, 1, k) \o <<n>> \o SubSeq(self.inner, k + 1, Len(self.inner))]
    ELSE [self EXCEPT !.inner[Head(trace_addr) + 1] =
            GetAllInnerNodes(self.inner[Head(trace_addr) + 1], n, Tail(trace_addr))]

\* a faulty variant: the descent takes the first child whatever the path element is
GetAllInnerNodesFirstChild(self, n, trace_addr) ==
    IF Len(trace_addr) = 1
    THEN [self EXCEPT !.inner = Append(self.inner, n)]
    ELSE [self EXCEPT !.inner[1] = GetAllInnerNodes(self.inner[1], n, Tail(trace_addr))]

GetAllInnerNodes(self, n, trace_addr) ==
    IF Len(trace_addr) = 1
    THEN [self EXCEPT !.inner = Append(self.inner, n)]
    ELSE [self EXCEPT !.inner[Head(trace_addr) + 1] =
            GetAllInnerNodes(self.inner[Head(trace_addr) + 1], n, Tail(trace_addr))]

\* a faulty variant: the finalized flag is not looked at
NodeInsertUnguarded(self, n) == GetAllInnerNodes(self, n, n.trace_address)

\* Node::insert, when it returns
NodeInsert(self, n) ==
    IF self.finalized THEN self
    ELSE GetAllInnerNodes(self, n, n.trace_address)

\* Node::insert returns (it does not panic)
NodeInsertReturns(self, n) == self.finalized \/ PathExists(self, n.trace_address)

(***************************************************************************)
(* inspect                                                                 *)
(***************************************************************************)
\* the predicate `call`: the set of the indexes of the nodes it holds on
Call(call, node) == node.index \in call

RECURSIVE NodeInspect(_, _, _)
RECURSIVE InspectChildren(_, _, _, _)
\* a faulty variant: every child is visited, a match or not
InspectChildrenAll(inner, i, res, call) ==
    IF i > Len(inner) THEN <<FALSE, res>>
    ELSE LET r == NodeInspect(inner[i], res, call)
             rest == InspectChildren(inner, i + 1, r[2], call)
         IN <<r[1] \/ rest[1], rest[2]>>

\* self.inner.iter().map(|i| i.inspect(result, call)).any(|f| f), from child i:
\* the iterator is lazy and any() stops at the first child that returns true
InspectChildren(inner, i, res, call) ==
    IF i > Len(inner) THEN <<FALSE, res>>
    ELSE LET r == NodeInspect(inner[i], res, call)
         IN IF r[1] THEN r
            ELSE InspectChildren(inner, i + 1, r[2], call)

\* a faulty variant: the node emits its group although a child matched
NodeInspectEmitAlways(self, res, call) ==
    IF ~Call(call, self) THEN <<FALSE, res>>
    ELSE LET lower == InspectChildren(self.inner, 1, res, call)
         IN <<TRUE, Append(lower[2], Append(GetAllSubActions(self), self.data))>>

\* Node::inspect: <<the value returned, result>>
NodeInspect(self, res, call) ==
    IF ~Call(call, self) THEN <<FALSE, res>>
    ELSE LET lower == InspectChildren(self.inner, 1, res, call)
         IN IF ~lower[1]
            THEN <<TRUE, Append(lower[2], Append(GetAllSubActions(self), self.data))>>
            ELSE <<TRUE, lower[2]>>

\* Root::inspect
RootInspect(root, call) == NodeInspect(root.head, <<>>, call)[2]

(***************************************************************************)
(* remove_duplicate_data                                                   *)
(***************************************************************************)
\* the closure `info`: the snapshot of a node is its index
Info(node) == node.index

RECURSIVE GetBoundedInfo(_, _, _, _)
RECURSIVE BoundedInfoOver(_, _, _, _, _, _)
\* nodes[from..to].iter().for_each(|node| node.get_bounded_info(..))
BoundedInfoOver(inner, from, to, lower, upper, res) ==
    IF from > to THEN res
    ELSE BoundedInfoOver(inner, from + 1, to, lower, upper,
                         GetBoundedInfo(inner[from], lower, upper, res))

\* the while loop of get_bounded_info: the 0-based positions start and end, -1 for None
FindStart(inner, lower) ==
    LET S == {i \in 1..(Len(inner) - 1) : inner[i].index >= lower}
    IN IF S = {} THEN -1 ELSE (CHOOSE i \in S : \A j \in S : i <= j) - 1

FindEnd(inner, upper) ==
    LET S == {i \in 1..(Len(inner) - 1) : inner[i + 1].index > upper}
    IN IF S = {} THEN -1 ELSE (CHOOSE i \in S : \A j \in S : i <= j) - 1

\* Node::get_bounded_info: res after the call
GetBoundedInfo(self, lower, upper, res) ==
    IF self.inner = <<>> THEN res
    ELSE IF self.index >= lower /\ Last(self.inner).index <= upper
    THEN BoundedInfoOver(self.inner, 1, Len(self.inner), lower, upper,
                         Append(res, Info(self)))
    ELSE LET start == FindStart(self.inner, lower)
             end == FindEnd(self.inner, upper)
         IN IF start >= 0 /\ end >= 0
            THEN BoundedInfoOver(self.inner, start + 1, end, lower, upper, res)
            ELSE IF start >= 0
            THEN BoundedInfoOver(self.inner, start + 1, Len(self.inner), lower, upper, res)
            ELSE res

\* the closure `classify`: a constant answer, the anchor itself, the anchor's
\* children, or what the info sequence holds
Classify(classify, data, node) ==
    CASE classify.kind = "const" -> classify.indexes
      [] classify.kind = "self" -> {node.index}
      [] classify.kind = "children" -> {node.inner[i].index : i \in DOMAIN node.inner}
      [] classify.kind = "data" -> Range(data)

RECURSIVE IndexesToRemove(_, _, _, _)
RECURSIVE IndexesToRemoveChildren(_, _, _, _, _)
\* self.inner.iter().map(|i| i.indexes_to_remove(..)).any(|f| f), from child i
IndexesToRemoveChildren(inner, i, indexes, find, classify) ==
    IF i > Len(inner) THEN <<FALSE, indexes>>
    ELSE LET r == IndexesToRemove(inner[i], indexes, find, classify)
         IN IF r[1] THEN r
            ELSE IndexesToRemoveChildren(inner, i + 1, r[2], find, classify)

\* Node::indexes_to_remove: <<the value returned, indexes>>
IndexesToRemove(self, indexes, find, classify) ==
    IF ~Call(find, self) THEN <<FALSE, indexes>>
    ELSE LET lower == IndexesToRemoveChildren(self.inner, 1, indexes, find, classify)
         IN IF ~lower[1]
            THEN LET data == GetBoundedInfo(self, 0, self.index, <<>>)
                 IN <<TRUE, lower[2] \cup Classify(classify, data, self)>>
            ELSE <<TRUE, lower[2]>>

RECURSIVE ClassifyCalls(_, _, _)
RECURSIVE ClassifyCallsChildren(_, _, _, _)
\* the walk of indexes_to_remove over the children from child i, keeping the
\* calls of classify instead of what they return
ClassifyCallsChildren(inner, i, calls, find) ==
    IF i > Len(inner) THEN <<FALSE, calls>>
    ELSE LET r == ClassifyCalls(inner[i], calls, find)
         IN IF r[1] THEN r
            ELSE ClassifyCallsChildren(inner, i + 1, r[2], find)

\* the walk of indexes_to_remove: <<the value returned, the calls classify(&data, self)
\* made so far, each as the index of self and the data handed over>>
ClassifyCalls(self, calls, find) ==
    IF ~Call(find, self) THEN <<FALSE, calls>>
    ELSE LET lower == ClassifyCallsChildren(self.inner, 1, calls, find)
         IN IF ~lower[1]
            THEN <<TRUE, Append(lower[2],
                     [node |-> self.index,
                      data |-> GetBoundedInfo(self, 0, self.index, <<>>)])>>
            ELSE <<TRUE, lower[2]>>

RECURSIVE RemoveIndexAndChilds(_, _)
RECURSIVE RemoveScan(_, _, _)
\* a faulty variant: the scan also descends into the last child
RemoveScanIntoLast(self, index, i) ==
    LET next == self.inner[i]
    IN IF index = next.index THEN [self EXCEPT !.inner = RemoveAt(self.inner, i)]
       ELSE IF i < Len(self.inner)
       THEN IF index > next.index /\ index < self.inner[i + 1].index
            THEN [self EXCEPT !.inner[i] = RemoveIndexAndChilds(next, index)]
            ELSE RemoveScan(self, index, i + 1)
       ELSE [self EXCEPT !.inner[i] = RemoveIndexAndChilds(next, index)]

\* a faulty variant: the child the index lies under is removed with all it holds
RemoveScanCutsBranch(self, index, i) ==
    LET next == self.inner[i]
    IN IF index = next.index THEN [self EXCEPT !.inner = RemoveAt(self.inner, i)]
       ELSE IF i < Len(self.inner)
       THEN IF index > next.index /\ index < self.inner[i + 1].index
            THEN [self EXCEPT !.inner = RemoveAt(self.inner, i)]
            ELSE RemoveScan(self, index, i + 1)
       ELSE self

\* the loop of remove_index_and_childs, at child i, and the removal after it
RemoveScan(self, index, i) ==
    LET next == self.inner[i]
    IN IF index = next.index THEN [self EXCEPT !.inner = RemoveAt(self.inner, i)]
       ELSE IF i < Len(self.inner)
       THEN IF index > next.index /\ index < self.inner[i + 1].index
            THEN [self EXCEPT !.inner[i] = RemoveIndexAndChilds(next, index)]
            ELSE RemoveScan(self, index, i + 1)
       ELSE self

\* Node::remove_index_and_childs
RemoveIndexAndChilds(self, index) ==
    IF self.inner = <<>> THEN self ELSE RemoveScan(self, index, 1)

RECURSIVE ScanBreak(_, _, _)
\* a faulty variant: the loop has no `else { break None }` after the last child
ScanBreakNoEnd(self, index, i) ==
    IF i > Len(self.inner) THEN [kind |-> "spin", at |-> i]
    ELSE IF index = self.inner[i].index THEN [kind |-> "some", at |-> i]
    ELSE IF i < Len(self.inner) /\ index > self.inner[i].index
                                /\ index < self.inner[i + 1].index
    THEN [kind |-> "descend", at |-> i]
    ELSE ScanBreak(self, index, i + 1)

\* how the loop of remove_index_and_childs ends, from the i-th iter.next():
\* break Some(our_index), break None after the call on the child below, or
\* break None at the last child; an iter.next() past the last child yields
\* None for ever and the loop never ends
ScanBreak(self, index, i) ==
    IF i > Len(self.inner) THEN [kind |-> "spin", at |-> i]
    ELSE IF index = self.inner[i].index THEN [kind |-> "some", at |-> i]
    ELSE IF i < Len(self.inner)
    THEN IF index > self.inner[i].index /\ index < self.inner[i + 1].index
         THEN [kind |-> "descend", at |-> i]
         ELSE ScanBreak(self, index, i + 1)
    ELSE [kind |-> "none", at |-> i]

RECURSIVE RemoveReturns(_, _)
\* Node::remove_index_and_childs returns
RemoveReturns(self, index) ==
    IF self.inner = <<>> THEN TRUE
    ELSE LET b == ScanBreak(self, index, 1)
         IN /\ b.kind # "spin"
            /\ b.kind = "descend" => RemoveReturns(self.inner[b.at], index)

RECURSIVE RemoveAllReturns(_, _)
\* the for_each over the set returns: every call of remove_index_and_childs does
RemoveAllReturns(head, order) ==
    IF order = <<>> THEN TRUE
    ELSE /\ RemoveReturns(head, Head(order))
         /\ RemoveAllReturns(RemoveIndexAndChilds(head, Head(order)), Tail(order))

RECURSIVE RemoveAll(_, _)
\* indexes.into_iter().for_each(|index| self.head.remove_index_and_childs(index))
RemoveAll(head, order) ==
    IF order = <<>> THEN head
    ELSE RemoveAll(RemoveIndexAndChilds(head, Head(order)), Tail(order))

\* Root::remove_duplicate_data, the first half: the set `indexes`
RootIndexes(root, find, classify) == IndexesToRemove(root.head, {}, find, classify)[2]

\* a faulty variant: the search runs once more on the tree the excision left
RootRemoveDuplicateDataSearchAgain(root, find, classify, order) ==
    LET first == RemoveAll(root.head, order)
        again == IndexesToRemove(first, {}, find, classify)[2]
    IN [root EXCEPT !.head = RemoveAll(first, CHOOSE o \in Perms(again) : TRUE)]

\* Root::remove_duplicate_data, with the order the HashSet is iterated in
RootRemoveDuplicateData(root, find, classify, order) ==
    [root EXCEPT !.head = RemoveAll(root.head, order)]

(***************************************************************************)
(* Tree walks used to state properties                                     *)
(***************************************************************************)
RECURSIVE NodeCount(_)
RECURSIVE CountOver(_, _)
CountOver(inner, i) ==
    IF i > Len(inner) THEN 0 ELSE NodeCount(inner[i]) + CountOver(inner, i + 1)

NodeCount(node) == 1 + CountOver(node.inner, 1)

RECURSIVE Preorder(_)
RECURSIVE PreorderOver(_, _)
PreorderOver(inner, i) ==
    IF i > Len(inner) THEN <<>> ELSE Preorder(inner[i]) \o PreorderOver(inner, i + 1)

\* the nodes of a tree, a node before its descendants, children in child order
Preorder(node) == <<node>> \o PreorderOver(node.inner, 1)

\* the indexes of the nodes of a tree
IndexesOf(node) == {n.index : n \in Range(Preorder(node))}

RECURSIVE PositionsOf(_)
\* the 0-based position path of every node of a tree, <<>> for the tree's top
PositionsOf(node) ==
    {<<>>} \cup UNION {{<<i - 1>> \o p : p \in PositionsOf(node.inner[i])}
                        : i \in DOMAIN node.inner}

RECURSIVE NodeAt(_, _)
\* the node a position path leads to
NodeAt(node, pos) ==
    IF pos = <<>> THEN node ELSE NodeAt(node.inner[Head(pos) + 1], Tail(pos))

\* the positions of the current call stack: the right-most path of the tree
RightMost(node) ==
    {p \in PositionsOf(node) :
        \A k \in 1..Len(p) : p[k] + 1 = Len(NodeAt(node, SubSeq(p, 1, k - 1)).inner)}

\* the trace_address of the next frame of a trace replayed in call order
CallOrderPaths(head) ==
    {p \o <<Len(NodeAt(head, p).inner)>> : p \in RightMost(head)}

(***************************************************************************)
(* The dependency table                                                    *)
(***************************************************************************)
\* mev_composability!: (MevType, the entry has a compose function, the dependencies)
MEV_FILTER ==
    << [head |-> "Sandwich", compose |-> FALSE, deps |-> <<"Backrun">>],
       [head |-> "CexDex", compose |-> FALSE, deps |-> <<"Backrun">>],
       [head |-> "Sandwich", compose |-> FALSE, deps |-> <<"CexDex">>],
       [head |-> "JitSandwich", compose |-> TRUE, deps |-> <<"Sandwich", "Jit">>] >>

(***************************************************************************)
(* TimeTree                                                                *)
(***************************************************************************)
\* header.base_fee_per_gas
BaseFee == 10

MaxPos == 2         \* largest element of a trace_address

\* gas_details.effective_gas_price of the k-th transaction of the block
GasPrice(k) == BaseFee + 2 * k

RECURSIVE SeqsUpTo(_, _)
SeqsUpTo(S, n) ==
    IF n = 0 THEN {<<>>}
    ELSE SeqsUpTo(S, n - 1) \cup
         {Append(s, x) : s \in {t \in SeqsUpTo(S, n - 1) : Len(t) = n - 1}, x \in S}

\* the trace addresses a decoded frame can carry
TracePaths == SeqsUpTo(0..MaxPos, MaxDepth) \ {<<>>}

TotalNodes == SumSeq([r \in DOMAIN roots |-> NodeCount(roots[r].head)])

\* struct Root around the frame of the transaction's top call
NewRoot(tx_hash, price) ==
    [head |-> NewNode(0, <<>>), tx_hash |-> tx_hash, private |-> FALSE,
     gas_details |-> [effective_gas_price |-> price]]

WordBits == 8       \* the bits of the unsigned words of the model (u64 in the code)

\* the number of values of an unsigned word
Word == 2 ^ WordBits

\* the exact sum of effective_gas_price - base_fee_per_gas over the roots
PriorityFeeSum(rs) ==
    SumSeq([r \in DOMAIN rs |-> rs[r].gas_details.effective_gas_price - BaseFee])

\* .sum::<u64>() leaves the range of the word: a panic with overflow checks,
\* a wrapped sum without them
SumOverflows(rs) == PriorityFeeSum(rs) >= Word

\* the mean of finalize_tree, roots not empty: the wrapped sum divided by roots.len()
AvgPriorityFee(rs) == (PriorityFeeSum(rs) % Word) \div Len(rs)

\* Root::finalize
RootFinalize(root) == [root EXCEPT !.head = Finalize(root.head)]

\* Root::insert, when it returns
RootInsert(root, n) == [root EXCEPT !.head = NodeInsert(root.head, n)]

\* TimeTree::new; the Composer is not in use
Init ==
    /\ roots = <<>>
    /\ avg_priority_fee = 0
    /\ phase = "building"
    /\ op = [name |-> "new"]
    /\ result = <<>>
    /\ callOrder = TRUE
    /\ mev_filter = MEV_FILTER
    /\ sorted_mev = <<>>
    /\ entry = 0
    /\ rpc = "idle"
    /\ before = <<>>
    /\ output = <<>>
    /\ tasks = <<>>
    /\ collected = <<>>
    /\ composer = "idle"
    /\ runs = 0
    /\ lastPoll = [ret |-> "none", finished |-> {}]

\* A call that leaves the tree as it was (inspect takes &self, insert_node
\* returns at once on a finalized Root): what follows it starts from a state
\* reached without it as well, so the call is kept as the last step of a
\* behaviour.
Returned ==
    \/ op.name = "inspect"
    \/ op.name = "insert_node" /\ phase = "finalized"

\* TimeTree::insert_root
InsertRoot ==
    /\ ~Returned
    /\ phase = "building"
    /\ Len(roots) < MaxRoots
    /\ TotalNodes < MaxNodes
    /\ roots' = Append(roots, NewRoot(Len(roots) + 1, GasPrice(Len(roots) + 1)))
    /\ op' = [name |-> "insert_root"]
    /\ result' = <<>>
    /\ UNCHANGED <<avg_priority_fee, phase, callOrder, tableVars, pollVars>>

\* a faulty variant: a frame whose path cannot be followed is dropped
InsertNodeDropsInvalid(trace_address) ==
    /\ ~Returned
    /\ phase \in {"building", "finalized"}
    /\ phase = "building" => TotalNodes < MaxNodes
    /\ op' = [name |-> "insert_node", trace_address |-> trace_address]
    /\ result' = <<>>
    /\ IF roots = <<>>
       THEN /\ phase' = "panicked"
            /\ UNCHANGED <<roots, callOrder>>
       ELSE LET last == roots[Len(roots)]
                n == NewNode(NodeCount(last.head), trace_address)
            IN IF NodeInsertReturns(last.head, n)
               THEN /\ roots' = [roots EXCEPT ![Len(roots)] = RootInsert(last, n)]
                    /\ callOrder' = (callOrder /\
                            (last.head.finalized \/ trace_address \in CallOrderPaths(last.head)))
                    /\ phase' = phase
               ELSE UNCHANGED <<roots, callOrder, phase>>
    /\ UNCHANGED <<avg_priority_fee, tableVars, pollVars>>

\* a faulty variant: the frame goes into the first Root
InsertNodeIntoFirst(trace_address) ==
    /\ ~Returned
    /\ phase \in {"building", "finalized"}
    /\ phase = "building" => TotalNodes < MaxNodes
    /\ op' = [name |-> "insert_node", trace_address |-> trace_address]
    /\ result' = <<>>
    /\ IF roots = <<>>
       THEN /\ phase' = "panicked"
            /\ UNCHANGED <<roots, callOrder>>
       ELSE LET first == roots[1]
                n == NewNode(NodeCount(first.head), trace_address)
            IN IF NodeInsertReturns(first.head, n)
               THEN /\ roots' = [roots EXCEPT ![1] = RootInsert(first, n)]
                    /\ callOrder' = (callOrder /\
                            (first.head.finalized \/ trace_address \in CallOrderPaths(first.head)))
                    /\ phase' = phase
               ELSE /\ phase' = "panicked"
                    /\ UNCHANGED <<roots, callOrder>>
    /\ UNCHANGED <<avg_priority_fee, tableVars, pollVars>>

\* TimeTree::insert_node with the next frame of the last transaction
InsertNode(trace_address) ==
    /\ ~Returned
    /\ phase \in {"building", "finalized"}
    /\ phase = "building" => TotalNodes < MaxNodes
    /\ op' = [name |-> "insert_node", trace_address |-> trace_address]
    /\ result' = <<>>
    /\ IF roots = <<>>
       THEN /\ phase' = "panicked"
            /\ UNCHANGED <<roots, callOrder>>
       ELSE LET last == roots[Len(roots)]
                n == NewNode(NodeCount(last.head), trace_address)
            IN IF NodeInsertReturns(last.head, n)
               THEN /\ roots' = [roots EXCEPT ![Len(roots)] = RootInsert(last, n)]
                    /\ callOrder' = (callOrder /\
                            (last.head.finalized \/ trace_address \in CallOrderPaths(last.head)))
                    /\ phase' = phase
               ELSE /\ phase' = "panicked"
                    /\ UNCHANGED <<roots, callOrder>>
    /\ UNCHANGED <<avg_priority_fee, tableVars, pollVars>>

\* the panic of finalize_tree, "none" when it returns: the sum is taken
\* first, then the division by roots.len()
FinalizePanic(overflow_checks) ==
    IF overflow_checks /\ SumOverflows(roots) THEN "attempt to add with overflow"
    ELSE IF roots = <<>> THEN "attempt to divide by zero"
    ELSE "none"

\* a faulty variant: no Roots give the fee 0
FinalizeTreeGuarded ==
    /\ ~Returned
    /\ phase = "building"
    /\ result' = <<>>
    /\ \E overflow_checks \in BOOLEAN :
          /\ op' = [name |-> "finalize_tree",
                    panic |-> IF roots = <<>> THEN "none" ELSE FinalizePanic(overflow_checks)]
          /\ IF roots # <<>> /\ FinalizePanic(overflow_checks) # "none"
             THEN /\ phase' = "panicked"
                  /\ UNCHANGED <<roots, avg_priority_fee>>
             ELSE /\ avg_priority_fee' = IF roots = <<>> THEN 0 ELSE AvgPriorityFee(roots)
                  /\ roots' = [r \in DOMAIN roots |-> RootFinalize(roots[r])]
                  /\ phase' = "finalized"
    /\ UNCHANGED <<callOrder, tableVars, pollVars>>

\* TimeTree::finalize_tree
FinalizeTree ==
    /\ ~Returned
    /\ phase = "building"
    /\ result' = <<>>
    /\ \E overflow_checks \in BOOLEAN :
          /\ op' = [name |-> "finalize_tree", panic |-> FinalizePanic(overflow_checks)]
          /\ IF FinalizePanic(overflow_checks) # "none"
             THEN /\ phase' = "panicked"
                  /\ UNCHANGED <<roots, avg_priority_fee>>
             ELSE /\ avg_priority_fee' = AvgPriorityFee(roots)
                  /\ roots' = [r \in DOMAIN roots |-> RootFinalize(roots[r])]
                  /\ phase' = "finalized"
    /\ UNCHANGED <<callOrder, tableVars, pollVars>>

\* TimeTree::inspect with the hash of root r
Inspect(r, call) ==
    /\ ~Returned
    /\ phase \in {"building", "finalized"}
    /\ r \in DOMAIN roots
    /\ result' = RootInspect(roots[r], call)
    /\ op' = [name |-> "inspect", root |-> r, call |-> call]
    /\ UNCHANGED <<roots, avg_priority_fee, phase, callOrder, tableVars, pollVars>>

IndexUniverse == 0..(MaxNodes - 1)

\* the closures handed to remove_duplicate_data as `classify`
ClassifyFns ==
    {[kind |-> "const", indexes |-> T] : T \in {U \in SUBSET IndexUniverse : Cardinality(U) <= 2}}
    \cup {[kind |-> k, indexes |-> {}] : k \in {"self", "children", "data"}}

\* the predicates handed as `find`: the indexes they hold on, root by root
FindFns == Product([r \in DOMAIN roots |-> SUBSET IndexesOf(roots[r].head)])

\* the orders in which the HashSet `indexes` of every root can be iterated
Orders(find, classify) ==
    Product([r \in DOMAIN roots |-> Perms(RootIndexes(roots[r], find[r], classify))])

\* TimeTree::remove_duplicate_data
RemoveDuplicateData(find, classify, order) ==
    /\ ~Returned
    /\ phase = "finalized"
    /\ roots' = [r \in DOMAIN roots |->
                    RootRemoveDuplicateData(roots[r], find[r], classify, order[r])]
    /\ op' = [name |-> "remove_duplicate_data",
              indexes |-> [r \in DOMAIN roots |-> RootIndexes(roots[r], find[r], classify)],
              calls |-> [r \in DOMAIN roots |-> ClassifyCalls(roots[r].head, <<>>, find[r])[2]]]
    /\ result' = <<>>
    /\ UNCHANGED <<avg_priority_fee, phase, callOrder, tableVars, pollVars>>

TreeNext ==
    \/ InsertRoot
    \/ \E trace_address \in TracePaths : InsertNode(trace_address)
    \/ FinalizeTree
    \/ \E r \in DOMAIN roots : \E call \in SUBSET IndexesOf(roots[r].head) : Inspect(r, call)
    \/ \E find \in FindFns : \E classify \in ClassifyFns :
          \E order \in Orders(find, classify) :
              RemoveDuplicateData(find, classify, order)

(***************************************************************************)
(* Composer: the dependency table                                          *)
(***************************************************************************)
MaxBundles == 4     \* bundles the inspectors of one block return
MaxPerKind == 2     \* bundles of one kind
NumHashes == 2      \* transaction hashes the bundles refer to

\* enum MevType: the kinds of the table and one kind the table does not name
MevTypes == {"Sandwich", "Backrun", "CexDex", "Jit", "JitSandwich", "Liquidation"}

\* mev_transaction_hashes() of a bundle: a non-empty list of distinct hashes
HashLists ==
    {h \in SeqsUpTo(1..NumHashes, NumHashes) :
        h # <<>> /\ \A i, j \in DOMAIN h : i < j => h[i] < h[j]}

\* a (ClassifiedMev, Box<dyn SpecificMev>) pair; id tells the bundles of a block apart
Bundle(id, mev_type, hashes, profit) ==
    [id |-> {id}, mev_type |-> mev_type, hashes |-> hashes, finalized_profit_usd |-> profit]

\* compose_sandwich_jit: the merged header and payload of a Sandwich and a Jit bundle
ComposeSandwichJit(sandwich, jit) ==
    [id |-> sandwich.id \cup jit.id,
     mev_type |-> "JitSandwich",
     hashes |-> sandwich.hashes \o SelectSeq(jit.hashes, LAMBDA h : h \notin Range(sandwich.hashes)),
     finalized_profit_usd |-> sandwich.finalized_profit_usd + jit.finalized_profit_usd]

\* sorted_mev.entry(k).or_default().push(v)
PushEntry(m, k, v) ==
    IF k \in DOMAIN m THEN [m EXCEPT ![k] = Append(@, v)]
    ELSE [j \in DOMAIN m \cup {k} |-> IF j = k THEN <<v>> ELSE m[j]]

\* sorted_mev.remove(k), the map that is left
RemoveKey(m, k) == [j \in DOMAIN m \ {k} |-> m[j]]

RECURSIVE GroupByKind(_, _)
\* the fold of on_orchestra_resolution over orchestra_data, from acc
GroupByKind(data, acc) ==
    IF data = <<>> THEN acc
    ELSE GroupByKind(Tail(data), PushEntry(acc, Head(data).mev_type, Head(data)))

\* the two tests of replace_dep_filter on the hashes of a dependency bundle
\* and of a head bundle: equal, or a hash of the first is in the second
HashesMatch(dep_hashes, hashes) ==
    \/ dep_hashes = hashes
    \/ \E i \in DOMAIN dep_hashes : dep_hashes[i] \in Range(hashes)

RECURSIVE RemoveDataOfDep(_, _, _, _, _)
\* the inner for loop of replace_dep_filter over dep_mev, from position i (from 0)
RemoveDataOfDep(dep, dep_mev, hashes, i, remove_count) ==
    IF i >= Len(dep_mev) THEN <<>>
    ELSE IF HashesMatch(dep_mev[i + 1].hashes, hashes)
    THEN <<<<dep, i - remove_count>>>> \o
            RemoveDataOfDep(dep, dep_mev, hashes, i + 1, remove_count + 1)
    ELSE RemoveDataOfDep(dep, dep_mev, hashes, i + 1, remove_count)

RECURSIVE RemoveDataOfHead(_, _, _, _)
\* the for loop of replace_dep_filter over deps, from dependency d: remove_data
RemoveDataOfHead(m, deps, hashes, d) ==
    IF d > Len(deps) THEN <<>>
    ELSE (IF deps[d] \in DOMAIN m
          THEN RemoveDataOfDep(deps[d], m[deps[d]], hashes, 0, 0)
          ELSE <<>>) \o RemoveDataOfHead(m, deps, hashes, d + 1)

RECURSIVE FlattendIndexes(_, _, _, _)
\* head_mev.iter().flat_map(..).collect(), from head bundle b
FlattendIndexes(m, head_mev, deps, b) ==
    IF b > Len(head_mev) THEN <<>>
    ELSE RemoveDataOfHead(m, deps, head_mev[b].hashes, 1) \o
            FlattendIndexes(m, head_mev, deps, b + 1)

RECURSIVE RemoveIndexes(_, _)
\* the last loop of replace_dep_filter: entry.remove(index) when entry.len() > index
RemoveIndexes(m, flattend_indexes) ==
    IF flattend_indexes = <<>> THEN m
    ELSE LET mev_type == Head(flattend_indexes)[1]
             index == Head(flattend_indexes)[2]
         IN RemoveIndexes(
                IF Len(m[mev_type]) > index
                THEN [m EXCEPT ![mev_type] = RemoveAt(@, index + 1)]
                ELSE m,
                Tail(flattend_indexes))

\* Composer::replace_dep_filter
ReplaceDepFilter(head_mev_type, deps, m) ==
    IF head_mev_type \notin DOMAIN m THEN m
    ELSE RemoveIndexes(m, FlattendIndexes(m, m[head_mev_type], deps, 1))

\* the position (from 1) of the first bundle of `group` that compose_dep_filter
\* takes as the partner of a bundle with the given hashes, 0 if there is none
FindPartner(group, addresses) ==
    LET S == {i \in DOMAIN group :
                \/ group[i].hashes = addresses
                \/ \E k \in DOMAIN addresses : addresses[k] \in Range(group[i].hashes)}
    IN IF S = {} THEN 0 ELSE CHOOSE i \in S : \A j \in S : i <= j

RECURSIVE ComposeLoop(_, _, _, _)
\* a faulty variant: the partner is left in its group
ComposeLoopKeepPartner(m, parent_mev_type, composable_types, zero_txes) ==
    IF zero_txes = <<>> THEN m
    ELSE LET first == Head(zero_txes)
             index == IF composable_types[2] \in DOMAIN m
                      THEN FindPartner(m[composable_types[2]], first.hashes) ELSE 0
         IN IF index > 0
            THEN ComposeLoop(
                    PushEntry(m, parent_mev_type,
                              ComposeSandwichJit(first, m[composable_types[2]][index])),
                    parent_mev_type, composable_types, Tail(zero_txes))
            ELSE ComposeLoop(PushEntry(m, composable_types[1], first),
                             parent_mev_type, composable_types, Tail(zero_txes))

\* a faulty variant: a bundle without a partner is not put back
ComposeLoopDropUnmatched(m, parent_mev_type, composable_types, zero_txes) ==
    IF zero_txes = <<>> THEN m
    ELSE LET first == Head(zero_txes)
             index == IF composable_types[2] \in DOMAIN m
                      THEN FindPartner(m[composable_types[2]], first.hashes) ELSE 0
         IN IF index > 0
            THEN ComposeLoop(
                    PushEntry([m EXCEPT ![composable_types[2]] = RemoveAt(@, index)],
                              parent_mev_type,
                              ComposeSandwichJit(first, m[composable_types[2]][index])),
                    parent_mev_type, composable_types, Tail(zero_txes))
            ELSE ComposeLoop(m, parent_mev_type, composable_types, Tail(zero_txes))

\* the for loop of compose_dep_filter over zero_txes
ComposeLoop(m, parent_mev_type, composable_types, zero_txes) ==
    IF zero_txes = <<>> THEN m
    ELSE LET first == Head(zero_txes)
             index == IF composable_types[2] \in DOMAIN m
                      THEN FindPartner(m[composable_types[2]], first.hashes) ELSE 0
         IN IF index > 0
            THEN ComposeLoop(
                    PushEntry([m EXCEPT ![composable_types[2]] = RemoveAt(@, index)],
                              parent_mev_type,
                              ComposeSandwichJit(first, m[composable_types[2]][index])),
                    parent_mev_type, composable_types, Tail(zero_txes))
            ELSE ComposeLoop(PushEntry(m, composable_types[1], first),
                             parent_mev_type, composable_types, Tail(zero_txes))

\* compose_dep_filter panics: "we only support sequential compatibility"
ComposePanics(composable_types) == Len(composable_types) # 2

\* Composer::compose_dep_filter, two composable types
ComposeDepFilter(parent_mev_type, composable_types, m) ==
    IF composable_types[1] \notin DOMAIN m THEN m
    ELSE ComposeLoop(RemoveKey(m, composable_types[1]), parent_mev_type,
                     composable_types, m[composable_types[1]])

\* one iteration of MEV_FILTER.iter().for_each(..)
ApplyEntry(e, m) ==
    IF e.compose THEN ComposeDepFilter(e.head, e.deps, m)
    ELSE ReplaceDepFilter(e.head, e.deps, m)

RECURSIVE ApplyTable(_, _)
\* MEV_FILTER.iter().for_each(..), from entry k
ApplyTable(m, k) ==
    IF k > Len(MEV_FILTER) THEN m ELSE ApplyTable(ApplyEntry(MEV_FILTER[k], m), k + 1)

RECURSIVE FlattenValues(_, _)
\* sorted_mev.into_values().flatten(), the keys in the order the HashMap yields them
FlattenValues(m, order) ==
    IF order = <<>> THEN <<>> ELSE m[Head(order)] \o FlattenValues(m, Tail(order))

\* the orders in which into_values() can yield the groups that hold a bundle
ValueOrders(m) == Perms({k \in DOMAIN m : m[k] # <<>>})

\* a faulty variant: a bundle without profit is kept
ComposerResultsNonNegative(m, order) ==
    LET flattened_mev ==
            SelectSeq(FlattenValues(m, order), LAMBDA b : b.finalized_profit_usd >= 0)
    IN [header |-> [mev_count |-> Len(flattened_mev)], mev |-> flattened_mev]

\* the end of on_orchestra_resolution: the profit filter and mev_count
ComposerResults(m, order) ==
    LET flattened_mev ==
            SelectSeq(FlattenValues(m, order), LAMBDA b : b.finalized_profit_usd > 0)
    IN [header |-> [mev_count |-> Len(flattened_mev)], mev |-> flattened_mev]

\* Composer::on_orchestra_resolution
OnOrchestraResolution(orchestra_data, order) ==
    ComposerResults(ApplyTable(GroupByKind(orchestra_data, <<>>), 1), order)

(***************************************************************************)
(* SpecTable: on_orchestra_resolution, the table loop one entry per step   *)
(***************************************************************************)
\* the kinds the inspectors return, in the order the orchestra holds them
InspectorKinds == <<"Sandwich", "Backrun", "CexDex", "Jit", "Liquidation">>

\* the bundle sequences one inspector can return for a block: profit 1 each
KindOutputs(k) ==
    {[i \in DOMAIN hs |-> Bundle(10 * k + i, InspectorKinds[k], hs[i], 1)] :
        hs \in SeqsUpTo(HashLists, MaxPerKind)}

RECURSIVE DataFrom(_, _)
\* the results of the inspectors from the k-th on, n bundles at most, one after another
DataFrom(k, n) ==
    IF k > Len(InspectorKinds) THEN {<<>>}
    ELSE UNION {{o \o rest : rest \in DataFrom(k + 1, n - Len(o))}
                    : o \in {x \in KindOutputs(k) : Len(x) <= n}}

\* what scope.collect() can hand to on_orchestra_resolution
OrchestraData == DataFrom(1, MaxBundles)

NoOutput == [header |-> [mev_count |-> 0], mev |-> <<>>]

\* on_orchestra_resolution is entered with the collected bundles, held in
\* `before` until they are grouped; no tree is being built
TableInit ==
    /\ before \in OrchestraData
    /\ mev_filter = MEV_FILTER
    /\ sorted_mev = <<>>
    /\ entry = 0
    /\ rpc = "group"
    /\ output = NoOutput
    /\ roots = <<>>
    /\ avg_priority_fee = 0
    /\ phase = "idle"
    /\ op = [name |-> "none"]
    /\ result = <<>>
    /\ callOrder = TRUE
    /\ tasks = <<>>
    /\ collected = <<>>
    /\ composer = "idle"
    /\ runs = 0
    /\ lastPoll = [ret |-> "none", finished |-> {}]

\* the fold that builds sorted_mev
Group ==
    /\ rpc = "group"
    /\ sorted_mev' = GroupByKind(before, <<>>)
    /\ before' = sorted_mev
    /\ rpc' = "table"
    /\ UNCHANGED <<mev_filter, entry, output, treeVars, pollVars>>

\* the next entry of MEV_FILTER
TableStep ==
    /\ rpc = "table"
    /\ entry < Len(mev_filter)
    /\ IF mev_filter[entry + 1].compose /\ ComposePanics(mev_filter[entry + 1].deps)
       THEN /\ rpc' = "panicked"
            /\ UNCHANGED <<sorted_mev, before, entry>>
       ELSE /\ sorted_mev' = ApplyEntry(mev_filter[entry + 1], sorted_mev)
            /\ before' = sorted_mev
            /\ entry' = entry + 1
            /\ rpc' = rpc
    /\ UNCHANGED <<mev_filter, output, treeVars, pollVars>>

\* the profit filter, mev_count and Poll::Ready
Flatten(order) ==
    /\ rpc = "table"
    /\ entry = Len(mev_filter)
    /\ output' = ComposerResults(sorted_mev, order)
    /\ rpc' = "ready"
    /\ UNCHANGED <<mev_filter, sorted_mev, before, entry, treeVars, pollVars>>

TableNext ==
    \/ Group
    \/ TableStep
    \/ \E order \in ValueOrders(sorted_mev) : Flatten(order)

Spec == Init /\ [][TreeNext]_vars

SpecTable == TableInit /\ [][TableNext]_vars

(***************************************************************************)
(* SpecConfig: on_orchestra_resolution under tables the macro accepts      *)
(***************************************************************************)
MaxConfigBundles == 2   \* bundles of the block that is resolved

\* the dependency lists written for the compose entry: the macro takes one or
\* more kinds after `=>`
ComposeDeps == {<<"Sandwich", "Jit">>, <<"Sandwich">>, <<"Sandwich", "Jit", "Backrun">>}

\* the tables mev_composability! builds: the table of the code, and the same
\* with another dependency list in its compose entry
Tables ==
    {[k \in DOMAIN MEV_FILTER |->
        IF MEV_FILTER[k].compose THEN [MEV_FILTER[k] EXCEPT !.deps = deps]
        ELSE MEV_FILTER[k]] : deps \in ComposeDeps}

\* the process was built with a table, and on_orchestra_resolution is entered
\* with the bundles of its first block
ConfigInit ==
    /\ mev_filter \in Tables
    /\ before \in DataFrom(1, MaxConfigBundles)
    /\ sorted_mev = <<>>
    /\ entry = 0
    /\ rpc = "group"
    /\ output = NoOutput
    /\ roots = <<>>
    /\ avg_priority_fee = 0
    /\ phase = "idle"
    /\ op = [name |-> "none"]
    /\ result = <<>>
    /\ callOrder = TRUE
    /\ tasks = <<>>
    /\ collected = <<>>
    /\ composer = "idle"
    /\ runs = 0
    /\ lastPoll = [ret |-> "none", finished |-> {}]

SpecConfig == ConfigInit /\ [][TableNext]_vars

(***************************************************************************)
(* SpecFee: finalize_tree over the gas prices of a block                   *)
(***************************************************************************)
MaxFeeRoots == 3    \* transactions of a block

\* effective_gas_price of a transaction: at the base fee, a little above it,
\* and as large as the word allows
Prices == {BaseFee, BaseFee + 2, BaseFee + 4, BaseFee + Word \div 2, Word - 1}

\* the blocks handed to finalize_tree: the Roots of up to MaxFeeRoots
\* transactions, each with the frame of its top call
FeeBlocks ==
    {[k \in DOMAIN ps |-> NewRoot(k, ps[k])] : ps \in SeqsUpTo(Prices, MaxFeeRoots)}

\* the Roots of a block were appended; finalize_tree is next
FeeInit ==
    /\ roots \in FeeBlocks
    /\ avg_priority_fee = 0
    /\ phase = "building"
    /\ op = [name |-> "insert_root"]
    /\ result = <<>>
    /\ callOrder = TRUE
    /\ mev_filter = MEV_FILTER
    /\ sorted_mev = <<>>
    /\ entry = 0
    /\ rpc = "idle"
    /\ before = <<>>
    /\ output = <<>>
    /\ tasks = <<>>
    /\ collected = <<>>
    /\ composer = "idle"
    /\ runs = 0
    /\ lastPoll = [ret |-> "none", finished |-> {}]

FeeNext == FinalizeTree

SpecFee == FeeInit /\ [][FeeNext]_vars

(***************************************************************************)
(* SpecGas: GasDetails::gas_paid                                           *)
(***************************************************************************)
\* the values of a word the fields are drawn from: small ones, one in the
\* middle of the range, and the largest
GasWords == {0, 1, 3, Word \div 16, Word - 1}

\* struct GasDetails; coinbase_transfer is <<>> for None and <<v>> for Some(v)
GasDetailsSet ==
    [gas_used : GasWords, effective_gas_price : GasWords,
     coinbase_transfer : {<<>>} \cup {<<v>> : v \in GasWords \ {3}}]

\* coinbase_transfer.unwrap_or(0)
CoinbaseOf(g) == IF g.coinbase_transfer = <<>> THEN 0 ELSE g.coinbase_transfer[1]

\* the multiplication or the addition of gas_paid leaves the range of the word
GasPaidOverflows(g) ==
    \/ g.gas_used * g.effective_gas_price >= Word
    \/ ((g.gas_used * g.effective_gas_price) % Word) + CoinbaseOf(g) >= Word

\* GasDetails::gas_paid when it returns: both operations wrapped to the word
GasPaid(g) == (((g.gas_used * g.effective_gas_price) % Word) + CoinbaseOf(g)) % Word

\* a GasDetails value is at hand
GasInit ==
    /\ op \in {[name |-> "GasDetails", gas_details |-> g] : g \in GasDetailsSet}
    /\ result = <<>>
    /\ phase = "idle"
    /\ roots = <<>>
    /\ avg_priority_fee = 0
    /\ callOrder = TRUE
    /\ mev_filter = MEV_FILTER
    /\ sorted_mev = <<>>
    /\ entry = 0
    /\ rpc = "idle"
    /\ before = <<>>
    /\ output = <<>>
    /\ tasks = <<>>
    /\ collected = <<>>
    /\ composer = "idle"
    /\ runs = 0
    /\ lastPoll = [ret |-> "none", finished |-> {}]

\* a call of gas_paid: a build with overflow checks panics where the other wraps
CallGasPaid ==
    /\ op.name = "GasDetails"
    /\ op' = [op EXCEPT !.name = "gas_paid"]
    /\ \E overflow_checks \in BOOLEAN :
          IF overflow_checks /\ GasPaidOverflows(op.gas_details)
          THEN /\ phase' = "panicked"
               /\ UNCHANGED result
          ELSE /\ phase' = "returned"
               /\ result' = GasPaid(op.gas_details)
    /\ UNCHANGED <<roots, avg_priority_fee, callOrder, tableVars, pollVars>>

GasNext == CallGasPaid

SpecGas == GasInit /\ [][GasNext]_vars

(***************************************************************************)
(* SpecRemove: Root::remove_duplicate_data on one finalized Root           *)
(***************************************************************************)
MaxRemoveNodes == 5 \* frames of the transaction, the head included

\* the trace_address of a frame that becomes the next child of a node of the tree
NextChildPaths(head) ==
    {p \o <<Len(NodeAt(head, p).inner)>> : p \in PositionsOf(head)} \cap TracePaths

RECURSIVE BuiltHeads(_)
\* the trees Root::insert builds from n frames that carry the trace_address of
\* the place they take, each with the flag that says whether the frames came
\* in call order
BuiltHeads(n) ==
    IF n = 1 THEN {<<NewNode(0, <<>>), TRUE>>}
    ELSE UNION {{<<NodeInsert(h[1], NewNode(NodeCount(h[1]), t)),
                   h[2] /\ t \in CallOrderPaths(h[1])>>
                   : t \in NextChildPaths(h[1])}
                : h \in BuiltHeads(n - 1)}

\* the finalized Roots of a transaction of up to MaxRemoveNodes frames
FinalizedRoots ==
    {<<[NewRoot(1, BaseFee) EXCEPT !.head = Finalize(h[1])], h[2]>>
        : h \in UNION {BuiltHeads(n) : n \in 1..MaxRemoveNodes}}

\* a finalized Root is at hand
RemoveInit ==
    /\ \E b \in FinalizedRoots : roots = <<b[1]>> /\ callOrder = b[2]
    /\ before = <<>>
    /\ op = [name |-> "finalize"]
    /\ phase = "finalized"
    /\ result = <<>>
    /\ avg_priority_fee = 0
    /\ mev_filter = MEV_FILTER
    /\ sorted_mev = <<>>
    /\ entry = 0
    /\ rpc = "idle"
    /\ output = <<>>
    /\ tasks = <<>>
    /\ collected = <<>>
    /\ composer = "idle"
    /\ runs = 0
    /\ lastPoll = [ret |-> "none", finished |-> {}]

\* the closures handed as `classify` to the Root
RemoveClassifyFns ==
    {[kind |-> "const", indexes |-> T]
        : T \in {U \in SUBSET (0..(MaxRemoveNodes - 1)) : Cardinality(U) <= 2}}
    \cup {[kind |-> k, indexes |-> {}] : k \in {"self", "children", "data"}}

\* Root::remove_duplicate_data, called once on the Root; `before` keeps the
\* Root the call started on
CallRemoveDuplicateData(find, classify, order) ==
    /\ before = <<>>
    /\ before' = roots
    /\ roots' = <<RootRemoveDuplicateData(roots[1], find, classify, order)>>
    /\ phase' = IF RemoveAllReturns(roots[1].head, order) THEN phase ELSE "hung"
    /\ op' = [name |-> "remove_duplicate_data", find |-> find, classify |-> classify,
              indexes |-> RootIndexes(roots[1], find, classify),
              calls |-> ClassifyCalls(roots[1].head, <<>>, find)[2]]
    /\ UNCHANGED <<avg_priority_fee, result, callOrder, mev_filter, sorted_mev,
                   entry, rpc, output, pollVars>>

RemoveNext ==
    \E find \in SUBSET IndexesOf(roots[1].head) : \E classify \in RemoveClassifyFns :
        \E order \in Perms(RootIndexes(roots[1], find, classify)) :
            CallRemoveDuplicateData(find, classify, order)

SpecRemove == RemoveInit /\ [][RemoveNext]_vars

(***************************************************************************)
(* SpecClassify: Root::dyn_classify on one Root                            *)
(***************************************************************************)
\* node.address: every frame is sent from an address of its own
AddressOf(node) == node.index

\* the closure `find` on (address, subactions): the address is one of a set
\* and, when an action is asked for, the subactions hold it
Find(find, address, subactions) ==
    /\ address \in find.addresses
    /\ find.action # <<>> => find.action[1] \in Range(subactions)

\* the closure `call` on &mut Node: <<the node afterwards, the Option returned
\* as a sequence of at most one triple>>
Transform(call, node) ==
    << IF call.classifies THEN [node EXCEPT !.data = node.data + MaxRemoveNodes] ELSE node,
       IF call.returns = "always" \/ (call.returns = "leaf" /\ node.inner = <<>>)
       THEN << <<AddressOf(node), <<AddressOf(node), node.data>> >> >>
       ELSE <<>> >>

RECURSIVE NodeDynClassify(_, _, _, _, _)
RECURSIVE DynClassifyChildren(_, _, _, _, _, _)
\* self.inner.iter_mut().any(|i| i.dyn_classify(find, call, result)), from child i
DynClassifyChildren(inner, i, res, calls, find, call) ==
    IF i > Len(inner) THEN [ret |-> FALSE, inner |-> inner, res |-> res, calls |-> calls]
    ELSE LET r == NodeDynClassify(inner[i], res, calls, find, call)
         IN IF r.ret
            THEN [ret |-> TRUE, inner |-> [inner EXCEPT ![i] = r.node],
                  res |-> r.res, calls |-> r.calls]
            ELSE DynClassifyChildren([inner EXCEPT ![i] = r.node], i + 1,
                                     r.res, r.calls, find, call)

\* a faulty variant: call runs on the node although a child matched
NodeDynClassifyCallAlways(self, res, calls, find, call) ==
    IF ~Find(find, AddressOf(self), GetAllSubActions(self))
    THEN [ret |-> FALSE, node |-> self, res |-> res, calls |-> calls]
    ELSE LET lower == DynClassifyChildren(self.inner, 1, res, calls, find, call)
             below == [self EXCEPT !.inner = lower.inner]
             t == Transform(call, below)
         IN [ret |-> TRUE, node |-> t[1], res |-> lower.res \o t[2],
             calls |-> Append(lower.calls, self.index)]

\* Node::dyn_classify: the value returned, the node and result afterwards, and
\* the indexes of the nodes `call` ran on
NodeDynClassify(self, res, calls, find, call) ==
    IF ~Find(find, AddressOf(self), GetAllSubActions(self))
    THEN [ret |-> FALSE, node |-> self, res |-> res, calls |-> calls]
    ELSE LET lower == DynClassifyChildren(self.inner, 1, res, calls, find, call)
             below == [self EXCEPT !.inner = lower.inner]
             t == Transform(call, below)
         IN IF ~lower.ret
            THEN [ret |-> TRUE, node |-> t[1], res |-> lower.res \o t[2],
                  calls |-> Append(lower.calls, self.index)]
            ELSE [ret |-> TRUE, node |-> below, res |-> lower.res, calls |-> lower.calls]

\* Root::dyn_classify
RootDynClassify(root, find, call) == NodeDynClassify(root.head, <<>>, <<>>, find, call)

\* the Roots of a transaction of up to MaxRemoveNodes frames, finalized or not
BuiltRoots ==
    {[NewRoot(1, BaseFee) EXCEPT !.head = IF f THEN Finalize(h[1]) ELSE h[1]]
        : h \in UNION {BuiltHeads(n) : n \in 1..MaxRemoveNodes}, f \in BOOLEAN}

\* a Root is at hand
ClassifyInit ==
    /\ roots \in {<<b>> : b \in BuiltRoots}
    /\ before = <<>>
    /\ op = [name |-> "insert"]
    /\ phase = "idle"
    /\ result = <<>>
    /\ callOrder = TRUE
    /\ avg_priority_fee = 0
    /\ mev_filter = MEV_FILTER
    /\ sorted_mev = <<>>
    /\ entry = 0
    /\ rpc = "idle"
    /\ output = <<>>
    /\ tasks = <<>>
    /\ collected = <<>>
    /\ composer = "idle"
    /\ runs = 0
    /\ lastPoll = [ret |-> "none", finished |-> {}]

\* the closures handed as `find`
FindPreds ==
    {[addresses |-> A, action |-> a]
        : A \in SUBSET IndexesOf(roots[1].head), a \in {<<>>, <<1>>, <<2>>}}

\* the closures handed as `call`
Transforms ==
    {[returns |-> r, classifies |-> c] : r \in {"always", "never", "leaf"}, c \in BOOLEAN}

\* Root::dyn_classify, called once on the Root; `before` keeps the Root the
\* call started on
CallDynClassify(find, call) ==
    /\ before = <<>>
    /\ before' = roots
    /\ roots' = <<[roots[1] EXCEPT !.head = RootDynClassify(roots[1], find, call).node]>>
    /\ result' = RootDynClassify(roots[1], find, call).res
    /\ op' = [name |-> "dyn_classify", find |-> find, call |-> call,
              calls |-> RootDynClassify(roots[1], find, call).calls]
    /\ UNCHANGED <<avg_priority_fee, phase, callOrder, mev_filter, sorted_mev,
                   entry, rpc, output, pollVars>>

ClassifyNext ==
    \E find \in FindPreds : \E call \in Transforms : CallDynClassify(find, call)

SpecClassify == ClassifyInit /\ [][ClassifyNext]_vars

(***************************************************************************)
(* SpecFinalize: Root::finalize called again and again on one Root         *)
(***************************************************************************)
MaxFinalizeCalls == 3   \* calls of finalize on the Root

\* a Root is at hand, finalized or not
FinalizeInit ==
    /\ roots \in {<<b>> : b \in BuiltRoots}
    /\ before = <<>>
    /\ op = [name |-> "insert", calls |-> 0]
    /\ phase = "idle"
    /\ result = <<>>
    /\ callOrder = TRUE
    /\ avg_priority_fee = 0
    /\ mev_filter = MEV_FILTER
    /\ sorted_mev = <<>>
    /\ entry = 0
    /\ rpc = "idle"
    /\ output = <<>>
    /\ tasks = <<>>
    /\ collected = <<>>
    /\ composer = "idle"
    /\ runs = 0
    /\ lastPoll = [ret |-> "none", finished |-> {}]

\* Root::finalize; `before` keeps the Root the call started on
CallFinalize ==
    /\ op.calls < MaxFinalizeCalls
    /\ before' = roots
    /\ roots' = <<RootFinalize(roots[1])>>
    /\ op' = [name |-> "finalize", calls |-> op.calls + 1]
    /\ UNCHANGED <<avg_priority_fee, phase, result, callOrder, mev_filter, sorted_mev,
                   entry, rpc, output, pollVars>>

FinalizeNext == CallFinalize

SpecFinalize == FinalizeInit /\ [][FinalizeNext]_vars

(***************************************************************************)
(* SpecPoll: the Composer future                                           *)
(***************************************************************************)
NumInspectors == 3  \* N, the size of the orchestra

\* finalized_profit_usd of the bundles the inspectors return
Profits == {-1, 0, 1}

\* what inspector i can return from process_tree: no bundle or one of its kind
InspectorOutputs(i) ==
    {<<>>} \cup {<<Bundle(10 * i + 1, InspectorKinds[i], h, p)>> : h \in HashLists, p \in Profits}

\* Composer::new: the future is built, nothing runs before the first poll
PollInit ==
    /\ tasks = [i \in 1..NumInspectors |-> [state |-> "unspawned", out |-> <<>>]]
    /\ collected = <<>>
    /\ composer = "new"
    /\ runs = 0
    /\ lastPoll = [ret |-> "none", finished |-> {}]
    /\ output = NoOutput
    /\ mev_filter = MEV_FILTER
    /\ sorted_mev = <<>>
    /\ entry = 0
    /\ rpc = "idle"
    /\ before = <<>>
    /\ roots = <<>>
    /\ avg_priority_fee = 0
    /\ phase = "idle"
    /\ op = [name |-> "none"]
    /\ result = <<>>
    /\ callOrder = TRUE

\* the tasks of the scope that have ended, with a value or with a panic
Finished == {i \in DOMAIN tasks : tasks[i].state \in {"done", "failed"}}

\* a faulty variant: the scope yields as soon as one task has ended
CollectReadyAny == Finished # {}

\* scope.collect().await is ready: every spawned task has ended
CollectReady == Finished = DOMAIN tasks

RECURSIVE Collect(_, _)
\* scope.collect(): the results of the tasks that have ended, in spawn order,
\* then .flat_map(|r| r.unwrap())
Collect(ts, i) ==
    IF i > Len(ts) THEN <<>>
    ELSE (IF ts[i].state = "done" THEN ts[i].out ELSE <<>>) \o Collect(ts, i + 1)

\* r.unwrap() panics: a task ended with a JoinError
UnwrapPanics == \E i \in DOMAIN tasks : tasks[i].state = "failed"

\* the first poll: the async block starts, spawns every inspector and awaits
PollFirst ==
    /\ composer = "new"
    /\ tasks' = [i \in DOMAIN tasks |-> [state |-> "running", out |-> <<>>]]
    /\ composer' = "pending"
    /\ lastPoll' = [ret |-> "pending", finished |-> {}]
    /\ UNCHANGED <<collected, runs, tableVars, treeVars>>

\* a later poll while the scope is not ready: Poll::Pending
PollPending ==
    /\ composer = "pending"
    /\ ~CollectReady
    /\ lastPoll' = [ret |-> "pending", finished |-> Finished]
    /\ UNCHANGED <<tasks, collected, composer, runs, tableVars, treeVars>>

\* a faulty variant: the result of a task that failed counts as no bundles
PollReadySkipFailed(order) ==
    /\ composer = "pending"
    /\ CollectReady
    /\ collected' = Collect(tasks, 1)
    /\ output' = OnOrchestraResolution(Collect(tasks, 1), order)
    /\ composer' = "ready"
    /\ runs' = runs + 1
    /\ lastPoll' = [lastPoll EXCEPT !.ret = "ready"]
    /\ UNCHANGED <<tasks, mev_filter, sorted_mev, entry, rpc, before, treeVars>>

\* a later poll once the scope is ready: on_orchestra_resolution, or the panic of unwrap
PollReady(order) ==
    /\ composer = "pending"
    /\ CollectReady
    /\ IF UnwrapPanics
       THEN /\ composer' = "panicked"
            /\ lastPoll' = [lastPoll EXCEPT !.ret = "panicked"]
            /\ UNCHANGED <<collected, runs, output>>
       ELSE /\ collected' = Collect(tasks, 1)
            /\ output' = OnOrchestraResolution(Collect(tasks, 1), order)
            /\ composer' = "ready"
            /\ runs' = runs + 1
            /\ lastPoll' = [lastPoll EXCEPT !.ret = "ready"]
    /\ UNCHANGED <<tasks, mev_filter, sorted_mev, entry, rpc, before, treeVars>>

\* the task of inspector i returns its bundles
TaskDone(i, out) ==
    /\ tasks[i].state = "running"
    /\ tasks' = [tasks EXCEPT ![i] = [state |-> "done", out |-> out]]
    /\ UNCHANGED <<collected, composer, runs, lastPoll, tableVars, treeVars>>

\* the task of inspector i panics
TaskPanic(i) ==
    /\ tasks[i].state = "running"
    /\ tasks' = [tasks EXCEPT ![i] = [state |-> "failed", out |-> <<>>]]
    /\ UNCHANGED <<collected, composer, runs, lastPoll, tableVars, treeVars>>

PollNext ==
    \/ PollFirst
    \/ PollPending
    \/ \E order \in ValueOrders(ApplyTable(GroupByKind(Collect(tasks, 1), <<>>), 1)) :
          PollReady(order)
    \/ \E i \in DOMAIN tasks : \E out \in InspectorOutputs(i) : TaskDone(i, out)
    \/ \E i \in DOMAIN tasks : TaskPanic(i)

SpecPoll == PollInit /\ [][PollNext]_vars

(***************************************************************************)
(* Properties of the tree                                                  *)
(***************************************************************************)
Front(s) == SubSeq(s, 1, Len(s) - 1)

\* the nodes of root r
NodesOf(r) == Range(Preorder(roots[r].head))

\* p is a position of a proper ancestor of position q, or q itself
IsPrefix(p, q) == Len(p) <= Len(q) /\ SubSeq(q, 1, Len(p)) = p

\* the predicate holds on every node of the path from the head to position p
HoldsDownTo(head, p, call) ==
    \A k \in 0..Len(p) : Call(call, NodeAt(head, SubSeq(p, 1, k)))

\* the predicate holds on no child of the node at position p
NoChildHolds(head, p, call) ==
    \A i \in DOMAIN NodeAt(head, p).inner : ~Call(call, NodeAt(head, p).inner[i])

\* the groups of the last inspect result that are anchored at a node: a group
\* ends with the action of its anchor, and the action of a frame names the frame
GroupsAt(node) == {i \in DOMAIN result : Last(result[i]) = node.data}

\* C1: inspect returns exactly one group anchored at every node n such that the
\* predicate holds on the whole path head..n and on no child of n (the groups
\* of all sibling branches are returned); stated for the finalized tree of a
\* trace inserted in call order.
C1_AllBranchesReturned ==
    (op.name = "inspect" /\ callOrder /\ phase = "finalized") =>
        \A p \in PositionsOf(roots[op.root].head) :
            (HoldsDownTo(roots[op.root].head, p, op.call)
                /\ NoChildHolds(roots[op.root].head, p, op.call))
            => Cardinality(GroupsAt(NodeAt(roots[op.root].head, p))) = 1

\* C2: after remove_duplicate_data on a Root built in call order, no node
\* (below the head) whose index classify returned is left in the tree, and
\* none of its descendants is.
C2_RequestedNodesRemoved ==
    [][(op'.name = "remove_duplicate_data" /\ callOrder) =>
        \A r \in DOMAIN roots : \A n \in NodesOf(r) :
            (n.index \in op'.indexes[r] /\ n.index # roots[r].head.index)
            => IndexesOf(n) \cap IndexesOf(roots'[r].head) = {}]_vars

RECURSIVE Postorder(_)
RECURSIVE PostorderOver(_, _)
PostorderOver(inner, i) ==
    IF i > Len(inner) THEN <<>> ELSE Postorder(inner[i]) \o PostorderOver(inner, i + 1)

\* the actions of a subtree: those of each child's subtree, in child order,
\* then the node's own
Postorder(node) == PostorderOver(node.inner, 1) \o <<node.data>>

RECURSIVE StoredOver(_, _)
\* the stored subactions of the children, in child order
StoredOver(inner, i) ==
    IF i > Len(inner) THEN <<>> ELSE inner[i].subactions \o StoredOver(inner, i + 1)

\* C6: after finalize_tree every node of every Root is finalized and its
\* subactions is the concatenation, in child order, of the children's
\* subactions followed by the node's own action (the actions of its subtree,
\* descendants first).
C6_FinalizeFlattens ==
    (op.name = "finalize_tree" /\ phase = "finalized") =>
        \A r \in DOMAIN roots : \A n \in NodesOf(r) :
            /\ n.finalized
            /\ n.subactions = StoredOver(n.inner, 1) \o <<n.data>>
            /\ n.subactions = Postorder(n)

C6_Witness ==
    /\ op.name = "finalize_tree"
    /\ phase = "finalized"
    /\ \E r \in DOMAIN roots :
          /\ Len(roots[r].head.inner) >= 2
          /\ \E i \in DOMAIN roots[r].head.inner : roots[r].head.inner[i].inner # <<>>

\* the node of the tree under `head` that has the given index
WithIndex(head, index) == CHOOSE n \in Range(Preorder(head)) : n.index = index

\* the position of the node of the tree under `head` that has the given index
PositionOf(head, index) ==
    CHOOSE p \in PositionsOf(head) : NodeAt(head, p).index = index

\* the step inserted a frame into the last Root
Inserted ==
    /\ op'.name = "insert_node"
    /\ phase = "building"
    /\ phase' = "building"

\* C7: insert of a node with trace_path [p0..pn] into a non-finalized tree
\* descends through the child positions p0..p(n-1) and appends the node as
\* the new last child of the node reached; every node that was in the tree
\* stays where it was, unchanged but for that one new child.
C7_InsertRouting ==
    [][Inserted =>
        LET old == roots[Len(roots)].head
            new == roots'[Len(roots)].head
            n == WithIndex(new, NodeCount(old))
            parent == Front(n.trace_address)
        IN /\ Len(roots') = Len(roots)
           /\ \A r \in 1..(Len(roots) - 1) : roots'[r] = roots[r]
           /\ NodeCount(new) = NodeCount(old) + 1
           /\ parent \in PositionsOf(old)
           /\ NodeAt(new, parent \o <<Len(NodeAt(old, parent).inner)>>) = n
           /\ n.inner = <<>>
           /\ \A q \in PositionsOf(old) :
                 /\ [NodeAt(new, q) EXCEPT !.inner = <<>>] = [NodeAt(old, q) EXCEPT !.inner = <<>>]
                 /\ Len(NodeAt(new, q).inner) =
                        Len(NodeAt(old, q).inner) + (IF q = parent THEN 1 ELSE 0)]_vars

\* a frame whose last path element is not the number of its earlier siblings
\* was inserted below a child of the head
C7_Witness ==
    /\ phase = "building"
    /\ op.name = "insert_node"
    /\ \E r \in DOMAIN roots : \E p \in PositionsOf(roots[r].head) :
          /\ Len(p) = 2
          /\ NodeAt(roots[r].head, p).trace_address # p
          /\ NodeAt(roots[r].head, p).index = NodeCount(roots[r].head) - 1

\* C8: after inserts made in call order, each with the parent's position path
\* followed by the number of children the parent already has, every node is
\* reached from the head by its own trace_path, and a node has as many
\* children as frames were inserted with a path directly under it.
C8_CallOrderPositions ==
    (callOrder /\ phase = "building") =>
        \A r \in DOMAIN roots : \A p \in PositionsOf(roots[r].head) :
            /\ NodeAt(roots[r].head, p).trace_address = p
            /\ Len(NodeAt(roots[r].head, p).inner) =
                  Cardinality({n \in NodesOf(r) :
                      n.index # roots[r].head.index /\ Front(n.trace_address) = p})

C8_Witness ==
    /\ callOrder
    /\ phase = "building"
    /\ \E r \in DOMAIN roots :
          /\ <<1, 0>> \in PositionsOf(roots[r].head)
          /\ NodeAt(roots[r].head, <<1, 0>>).trace_address = <<1, 0>>

\* C9: once the Roots are finalized, an insert with any trace_path changes
\* nothing of the tree (structure, subactions, finalized flags) and does not fail.
C9_InsertAfterFinalizeNoOp ==
    [][(phase = "finalized" /\ op'.name = "insert_node") =>
        (roots' = roots /\ phase' = "finalized" /\ avg_priority_fee' = avg_priority_fee)]_vars

C9_Witness ==
    /\ phase = "finalized"
    /\ op.name = "insert_node"
    /\ \E r \in DOMAIN roots : roots[r].head.inner # <<>>

StrictlyIncreasing(s) == \A i, j \in DOMAIN s : i < j => s[i] < s[j]

\* the indexes in the order of a preorder walk
PreorderIndexes(head) == [i \in DOMAIN Preorder(head) |-> Preorder(head)[i].index]

\* C10: in every state reached by inserting frames in call order, finalizing
\* and running remove_duplicate_data, the children of a node have strictly
\* increasing indexes, a node's index is less than its first child's, and a
\* preorder walk of a Root visits strictly increasing indexes.
C10_IndexMonotonic ==
    callOrder =>
        \A r \in DOMAIN roots :
            /\ StrictlyIncreasing(PreorderIndexes(roots[r].head))
            /\ \A n \in NodesOf(r) :
                  /\ StrictlyIncreasing([i \in DOMAIN n.inner |-> n.inner[i].index])
                  /\ n.inner # <<>> => n.index < n.inner[1].index

\* a subtree was excised from a tree built in call order and siblings are left
C10_Witness ==
    /\ callOrder
    /\ op.name = "remove_duplicate_data"
    /\ \E r \in DOMAIN roots :
          /\ NodeCount(roots[r].head) >= 3
          /\ \E i \in IndexesOf(roots[r].head) :
                /\ i >= 2
                /\ (i - 1) \notin IndexesOf(roots[r].head)

\* the position of the anchor of group i of the last inspect result
AnchorOf(head, i) == PositionOf(head, Last(result[i]))

\* C11: inspect emits no group anchored at a node on which the predicate is
\* false, at a node below a node on which it is false, or at a node with a
\* child on which it holds; no anchor is an ancestor of another anchor; and
\* when the predicate is false on the head the result is empty.
C11_AnchorsAreDeepest ==
    op.name = "inspect" =>
        LET head == roots[op.root].head
        IN /\ \A i \in DOMAIN result :
                 /\ Last(result[i]) \in IndexesOf(head)
                 /\ HoldsDownTo(head, AnchorOf(head, i), op.call)
                 /\ NoChildHolds(head, AnchorOf(head, i), op.call)
           /\ \A i, j \in DOMAIN result :
                 i # j => ~IsPrefix(AnchorOf(head, i), AnchorOf(head, j))
           /\ ~Call(op.call, head) => result = <<>>

\* a group anchored below the head, while the predicate also holds on a node
\* below a node on which it is false
C11_Witness ==
    /\ op.name = "inspect"
    /\ Len(result) = 1
    /\ Len(AnchorOf(roots[op.root].head, 1)) >= 1
    /\ \E p \in PositionsOf(roots[op.root].head) :
          /\ Len(p) = 2
          /\ Call(op.call, NodeAt(roots[op.root].head, p))
          /\ ~Call(op.call, NodeAt(roots[op.root].head, Front(p)))

\* the snapshots of the nodes of root r whose index lies in [lower, upper]
InfoInRange(r, lower, upper) ==
    {Info(n) : n \in {m \in NodesOf(r) : lower <= m.index /\ m.index <= upper}}

\* C12: in remove_duplicate_data on a Root built in call order, the info
\* sequence handed to classify at an anchor that has children holds one
\* snapshot for every node whose index lies in the closed range from the
\* anchor's index to the index of the anchor's last child.
C12_InfoCoversRange ==
    [][(op'.name = "remove_duplicate_data" /\ callOrder) =>
        \A r \in DOMAIN roots : \A k \in DOMAIN op'.calls[r] :
            LET anchor == WithIndex(roots[r].head, op'.calls[r][k].node)
                data == op'.calls[r][k].data
            IN anchor.inner # <<>> =>
                  /\ Range(data) = InfoInRange(r, anchor.index, Last(anchor.inner).index)
                  /\ Len(data) = Cardinality(Range(data))]_vars

\* C16: after finalize_tree on a block with n >= 1 Roots whose
\* effective_gas_price is at least the base fee, avg_priority_fee is the mean
\* over all Roots of (effective_gas_price - base_fee), rounded down; prices
\* base_fee + 2 and base_fee + 4 give 3.
C16_AvgPriorityFeeIsMean ==
    (op.name = "finalize_tree" /\ phase = "finalized") =>
        /\ avg_priority_fee = PriorityFeeSum(roots) \div Len(roots)
        /\ (Len(roots) = 2
              /\ roots[1].gas_details.effective_gas_price = BaseFee + 2
              /\ roots[2].gas_details.effective_gas_price = BaseFee + 4)
           => avg_priority_fee = 3

\* some non-final element of the path addresses a child position that does
\* not exist at its level of the tree under `head`
MissingChild(head, path) ==
    \E k \in 1..(Len(path) - 1) : SubSeq(path, 1, k) \notin PositionsOf(head)

\* C17 as stated: insert_node of a frame whose trace_path addresses, at some
\* non-final element, a child position that does not exist fails fatally and
\* leaves the tree as it was.
C17_MissingChildIsFatal ==
    [][(op'.name = "insert_node" /\ roots # <<>>
            /\ MissingChild(roots[Len(roots)].head, op'.trace_address))
        => (phase' = "panicked" /\ roots' = roots)]_vars

\* C17 amended: the same for an insert into a Root that is not finalized; the
\* frame is not attached anywhere and nothing of the tree is modified.
C17_MissingChildIsFatalBeforeFinalize ==
    [][(op'.name = "insert_node" /\ roots # <<>>
            /\ ~roots[Len(roots)].head.finalized
            /\ MissingChild(roots[Len(roots)].head, op'.trace_address))
        => (phase' = "panicked" /\ roots' = roots
                /\ avg_priority_fee' = avg_priority_fee)]_vars

\* an insert failed on a path whose first element names a child of the head
\* and whose second element names no child of that child
C17_Witness ==
    /\ phase = "panicked"
    /\ op.name = "insert_node"
    /\ roots # <<>>
    /\ Len(op.trace_address) = 3
    /\ SubSeq(op.trace_address, 1, 1) \in PositionsOf(roots[Len(roots)].head)
    /\ SubSeq(op.trace_address, 1, 2) \notin PositionsOf(roots[Len(roots)].head)

\* C18: finalize_tree on a tree with no Roots fails with a division by zero;
\* it does not complete, and no avg_priority_fee is stored.
C18_NoRootsDivisionByZero ==
    [][(op'.name = "finalize_tree" /\ roots = <<>>) =>
        /\ phase' = "panicked"
        /\ op'.panic = "attempt to divide by zero"
        /\ avg_priority_fee' = avg_priority_fee
        /\ roots' = roots]_vars

C18_Witness ==
    /\ op.name = "finalize_tree"
    /\ roots = <<>>
    /\ phase = "panicked"

\* C20: insert_node changes the tree of the last appended Root only: the
\* earlier Roots and the number of Roots stay as they were, a frame that is
\* taken is a new node of the last Root, and with no Root insert_node fails.
C20_InsertIntoLastRootOnly ==
    [][op'.name = "insert_node" =>
        /\ Len(roots') = Len(roots)
        /\ \A r \in 1..(Len(roots) - 1) : roots'[r] = roots[r]
        /\ roots = <<>> => phase' = "panicked"
        /\ (roots # <<>> /\ phase' = "building") =>
              /\ NodeCount(roots'[Len(roots)].head) = NodeCount(roots[Len(roots)].head) + 1
              /\ \E n \in Range(Preorder(roots'[Len(roots)].head)) :
                    /\ n.index = NodeCount(roots[Len(roots)].head)
                    /\ n.trace_address = op'.trace_address]_vars

\* a frame was inserted into the second Root while the first Root has a frame
\* below its head too
C20_Witness ==
    /\ op.name = "insert_node"
    /\ phase = "building"
    /\ Len(roots) = 2
    /\ roots[1].head.inner # <<>>
    /\ roots[2].head.inner # <<>>

\* C21: for every gas_used, effective_gas_price and optional
\* coinbase_transfer, gas_paid returns
\* gas_used * effective_gas_price + coinbase_transfer (0 when absent).
C21_GasPaidIsProductPlusCoinbase ==
    op.name = "gas_paid" =>
        /\ phase = "returned"
        /\ result = op.gas_details.gas_used * op.gas_details.effective_gas_price
                        + CoinbaseOf(op.gas_details)

\* C24: every group inspect emits is the actions of the anchor's descendants
\* in child order, then the anchor's own action (the anchor's flattened
\* subactions), then the anchor's own action once more, in a tree that is
\* finalized as in one that is not.
C24_GroupIsSubactionsThenAction ==
    op.name = "inspect" =>
        \A i \in DOMAIN result :
            LET anchor == NodeAt(roots[op.root].head, AnchorOf(roots[op.root].head, i))
            IN result[i] = Append(Postorder(anchor), anchor.data)

\* the scope predicate of the last dyn_classify on a node of the starting tree
FindHolds(node) == Find(op.find, AddressOf(node), GetAllSubActions(node))

\* C25: dyn_classify runs `call` only on nodes on which the scope predicate
\* holds (on the node's address and flattened subactions), whose ancestors
\* all satisfy it and none of whose children does, and on no node twice;
\* the output is, in order, the triples those calls returned, one for each
\* call that returned one; when the predicate is false on the head no call
\* is made and the output is empty.
C25_TransformOnlyAtDeepest ==
    op.name = "dyn_classify" =>
        LET head == before[1].head
        IN /\ \A k \in DOMAIN op.calls :
                 /\ op.calls[k] \in IndexesOf(head)
                 /\ \A j \in 0..Len(PositionOf(head, op.calls[k])) :
                       FindHolds(NodeAt(head, SubSeq(PositionOf(head, op.calls[k]), 1, j)))
                 /\ \A c \in Range(WithIndex(head, op.calls[k]).inner) : ~FindHolds(c)
           /\ \A k, l \in DOMAIN op.calls : k # l => op.calls[k] # op.calls[l]
           /\ result = Concat([k \in DOMAIN op.calls |->
                                 Transform(op.call, WithIndex(head, op.calls[k]))[2]])
           /\ ~FindHolds(head) => (op.calls = <<>> /\ result = <<>>)

\* `call` ran on a node below the head that has a sibling on which the
\* predicate holds too, and returned a triple
C25_Witness ==
    /\ op.name = "dyn_classify"
    /\ Len(op.calls) = 1
    /\ Len(result) = 1
    /\ LET p == PositionOf(before[1].head, op.calls[1])
       IN /\ Len(p) >= 1
          /\ \E c \in Range(NodeAt(before[1].head, Front(p)).inner) :
                c.index # op.calls[1] /\ FindHolds(c)

\* C26: in every state of a finalized Root, those after remove_duplicate_data
\* included, the subactions of every node that is left are the actions of
\* the descendants it still has, in child order, followed by its own action.
C26_SubactionsOfRemainingNodes ==
    \A r \in DOMAIN roots : \A n \in NodesOf(r) :
        n.finalized => n.subactions = Postorder(n)

\* the indexes the recorded classify calls return on the tree under head
ProposedIndexes(head, classify, calls) ==
    UNION {Classify(classify, calls[k].data, WithIndex(head, calls[k].node))
             : k \in DOMAIN calls}

\* C22: remove_duplicate_data is two-phase: every classify call is made on
\* a node of the tree as it was when the operation started, with the info
\* gathered from that tree; the indexes the calls return are accumulated in
\* one set; and the tree afterwards is the starting tree with the indexes of
\* that set cut out, each once, in some order: no excision precedes the end
\* of the search.
C22_TwoPhaseRemoval ==
    op.name = "remove_duplicate_data" =>
        /\ \A k \in DOMAIN op.calls :
              /\ op.calls[k].node \in IndexesOf(before[1].head)
              /\ Call(op.find, WithIndex(before[1].head, op.calls[k].node))
              /\ op.calls[k].data =
                    GetBoundedInfo(WithIndex(before[1].head, op.calls[k].node),
                                   0, op.calls[k].node, <<>>)
        /\ op.indexes = ProposedIndexes(before[1].head, op.classify, op.calls)
        /\ \E o \in Perms(op.indexes) :
              roots[1].head = RemoveAll(before[1].head, o)

\* a removal that cut the two children of an anchor out of the tree
C22_Witness ==
    /\ op.name = "remove_duplicate_data"
    /\ op.classify.kind = "children"
    /\ Len(op.calls) = 1
    /\ op.calls[1].node # before[1].head.index
    /\ Cardinality(op.indexes) = 2
    /\ op.indexes \cap IndexesOf(roots[1].head) = {}
    /\ NodeCount(roots[1].head) < NodeCount(before[1].head)

\* C27: the tree remove_duplicate_data leaves is the same for every order in
\* which the indexes of the set are cut out; stated for a Root built in call
\* order.
C27_ExcisionOrderIrrelevant ==
    (op.name = "remove_duplicate_data" /\ callOrder) =>
        \A o \in Perms(op.indexes) : RemoveAll(before[1].head, o) = roots[1].head

\* the index of the parent of the node with the given index, not the head
ParentIndex(head, index) == NodeAt(head, Front(PositionOf(head, index))).index

\* the indexes of the children of the node with the given index, in child order
ChildIndexes(head, index) ==
    [k \in DOMAIN WithIndex(head, index).inner |-> WithIndex(head, index).inner[k].index]

\* C29: remove_duplicate_data takes out of the tree only nodes whose index
\* classify returned and descendants of such nodes; every node that is left
\* has the parent it had and its remaining children in the order they had,
\* and is otherwise unchanged.
C29_RemovalFrame ==
    op.name = "remove_duplicate_data" =>
        LET old == before[1].head
            new == roots[1].head
            left == IndexesOf(new)
        IN /\ left \subseteq IndexesOf(old)
           /\ NodeCount(new) = Cardinality(left)
           /\ \A i \in IndexesOf(old) \ left :
                 \E j \in op.indexes \cap IndexesOf(old) : i \in IndexesOf(WithIndex(old, j))
           /\ new.index = old.index
           /\ \A i \in left :
                 /\ i # new.index => ParentIndex(new, i) = ParentIndex(old, i)
                 /\ ChildIndexes(new, i) =
                       SelectSeq(ChildIndexes(old, i), LAMBDA c : c \in left)
                 /\ [WithIndex(new, i) EXCEPT !.inner = <<>>]
                       = [WithIndex(old, i) EXCEPT !.inner = <<>>]

\* a removal that took a node with a child out from between its siblings
C29_Witness ==
    /\ op.name = "remove_duplicate_data"
    /\ Cardinality(op.indexes) = 1
    /\ \E j \in op.indexes \cap IndexesOf(before[1].head) :
          /\ WithIndex(before[1].head, j).inner # <<>>
          /\ j \notin IndexesOf(roots[1].head)
          /\ Len(NodeAt(before[1].head, Front(PositionOf(before[1].head, j))).inner) = 3
          /\ Len(NodeAt(roots[1].head, Front(PositionOf(before[1].head, j))).inner) = 2

\* every node of the Root is finalized
AllFinalized(rs) == \A n \in Range(Preorder(rs[1].head)) : n.finalized

\* C32: a call of finalize on a Root that an earlier finalize left, with no
\* change in between, leaves every node as it was: the same subactions, the
\* finalized flag set, the same children.
C32_FinalizeIdempotent ==
    (op.name = "finalize" /\ (op.calls >= 2 \/ AllFinalized(before))) =>
        /\ roots = before
        /\ AllFinalized(roots)

\* a second finalize of a Root in which a child of the head has children
C32_Witness ==
    /\ op.name = "finalize"
    /\ op.calls = 2
    /\ Len(roots[1].head.inner) >= 2
    /\ \E i \in DOMAIN roots[1].head.inner : roots[1].head.inner[i].inner # <<>>
    /\ roots[1].head.subactions = Postorder(roots[1].head)

\* C33: remove_index_and_childs returns on every node of a tree and for
\* every index, one of a node of the tree, one of no node, or the head's
\* own: the scan of the children breaks at or before the last child, and so
\* remove_duplicate_data always completes.
C33_RemovalTerminates ==
    /\ phase # "hung"
    /\ \A n \in NodesOf(1) : \A index \in 0..MaxRemoveNodes :
          /\ RemoveReturns(n, index)
          /\ n.inner # <<>> =>
                /\ ScanBreak(n, index, 1).kind # "spin"
                /\ ScanBreak(n, index, 1).at <= Len(n.inner)

\* a removal that was handed the head's own index and an index of no node of
\* a tree in which a child of the head has children, and completed
C33_Witness ==
    /\ op.name = "remove_duplicate_data"
    /\ phase = "finalized"
    /\ before[1].head.index \in op.indexes
    /\ op.indexes \ IndexesOf(before[1].head) # {}
    /\ Len(before[1].head.inner) >= 2
    /\ \E i \in DOMAIN before[1].head.inner : before[1].head.inner[i].inner # <<>>
    /\ roots = before

(***************************************************************************)
(* Properties of the dependency table                                      *)
(***************************************************************************)
\* the bundles of a kind, none when the map has no such group
GroupOf(m, k) == IF k \in DOMAIN m THEN m[k] ELSE <<>>

\* two bundles refer to the same transaction-hash set
SameHashes(a, b) == Range(a.hashes) = Range(b.hashes)

\* two bundles have a transaction hash in common
ShareHash(a, b) == Range(a.hashes) \cap Range(b.hashes) # {}

\* the table entry that was applied last
LastEntry == MEV_FILTER[entry]

FilterApplied == rpc = "table" /\ entry >= 1 /\ ~LastEntry.compose

ComposeApplied == rpc = "table" /\ entry >= 1 /\ LastEntry.compose

\* C3: after a filter entry K => D1..Dm no bundle of a kind Di is left whose
\* hash set equals, or shares a hash with, the hash set of some K bundle.
C3_FilterRemovesAllMatches ==
    FilterApplied =>
        \A d \in Range(LastEntry.deps) :
            \A b \in Range(GroupOf(sorted_mev, d)) :
                \A k \in Range(GroupOf(before, LastEntry.head)) :
                    ~(SameHashes(b, k) \/ ShareHash(b, k))

\* the bundle of the JitSandwich group made of the given two
ComposedOf(m, s, j) ==
    {i \in DOMAIN GroupOf(m, "JitSandwich") : GroupOf(m, "JitSandwich")[i].id = s.id \cup j.id}

Uncontended(s, j) ==
    /\ \A t \in Range(GroupOf(before, "Sandwich")) : t # s => ~ShareHash(t, s)
    /\ \A t \in Range(GroupOf(before, "Jit")) : t # j => ~ShareHash(t, j)

C13_ExactMatchPreferred ==
    ComposeApplied =>
        \A k \in DOMAIN GroupOf(before, "Sandwich") :
            \A j \in Range(GroupOf(before, "Jit")) :
                LET s == before["Sandwich"][k]
                IN (ComposedOf(sorted_mev, s, j) # {} /\ ~SameHashes(s, j)) =>
                      \A x \in Range(GroupOf(before, "Jit")) :
                          SameHashes(s, x) =>
                              \E h \in 1..(k - 1) :
                                  ComposedOf(sorted_mev, before["Sandwich"][h], x) # {}

\* the Sandwich bundle was merged with some Jit bundle by the last entry
IsComposed(s) ==
    \E j \in Range(GroupOf(before, "Jit")) : ComposedOf(sorted_mev, s, j) # {}

\* C15: in the compose entry a first-kind bundle is merged only with a
\* second-kind bundle that shares a hash with it, a second-kind bundle is
\* merged at most once, and every first-kind bundle that is not merged (so
\* every one for which no second-kind bundle is left to match, or no second
\* group exists) is back in its group unchanged and in the old relative order;
\* the second group only loses the partners, no other kind is changed and no
\* error is raised; with no group of the first kind the entry changes nothing.
C15_UnmatchedPutBack ==
    /\ rpc # "panicked"
    /\ ComposeApplied =>
        /\ GroupOf(sorted_mev, "Sandwich") =
              SelectSeq(GroupOf(before, "Sandwich"), LAMBDA s : ~IsComposed(s))
        /\ \A s \in Range(GroupOf(before, "Sandwich")) :
              /\ \A j \in Range(GroupOf(before, "Jit")) :
                    ComposedOf(sorted_mev, s, j) # {} => ShareHash(s, j)
              /\ (\A j \in Range(GroupOf(before, "Jit")) : ~ShareHash(s, j)) =>
                    s \in Range(GroupOf(sorted_mev, "Sandwich"))
        /\ \A j \in Range(GroupOf(before, "Jit")) :
              Cardinality({s \in Range(GroupOf(before, "Sandwich")) :
                              ComposedOf(sorted_mev, s, j) # {}}) <= 1
        /\ GroupOf(sorted_mev, "Jit") =
              SelectSeq(GroupOf(before, "Jit"),
                        LAMBDA j : \A s \in Range(GroupOf(before, "Sandwich")) :
                                        ComposedOf(sorted_mev, s, j) = {})
        /\ \A k \in MevTypes \ {"Sandwich", "Jit", "JitSandwich"} :
              GroupOf(sorted_mev, k) = GroupOf(before, k)
        /\ "Sandwich" \notin DOMAIN before => sorted_mev = before

\* two Sandwich bundles were put back in their order while no Jit group
\* exists, next to a bundle of a kind the table does not name
C15_Witness ==
    /\ ComposeApplied
    /\ Len(GroupOf(before, "Sandwich")) = 2
    /\ "Jit" \notin DOMAIN before
    /\ sorted_mev["Sandwich"] = before["Sandwich"]
    /\ GroupOf(before, "Liquidation") # <<>>

\* the JitSandwich bundles the last entry made that a bundle went into
ComposedWith(b) ==
    {i \in DOMAIN GroupOf(sorted_mev, "JitSandwich") :
        /\ i > Len(GroupOf(before, "JitSandwich"))
        /\ b.id \subseteq GroupOf(sorted_mev, "JitSandwich")[i].id}

\* the number of JitSandwich bundles the last entry made
Synthesized == Len(GroupOf(sorted_mev, "JitSandwich")) - Len(GroupOf(before, "JitSandwich"))

\* C30: in the compose entry every Sandwich and every Jit bundle goes into at
\* most one composition; when c JitSandwich bundles are made, exactly c
\* Sandwich and c Jit bundles are gone, so the Sandwich and JitSandwich
\* bundles together, and the Jit and JitSandwich bundles together, are as
\* many as before; the groups of the other kinds are unchanged.
C30_ComposeConservesCounts ==
    ComposeApplied =>
        /\ \A b \in Range(GroupOf(before, "Sandwich")) \cup Range(GroupOf(before, "Jit")) :
              Cardinality(ComposedWith(b)) <= 1
        /\ Synthesized >= 0
        /\ Len(GroupOf(sorted_mev, "Sandwich")) = Len(GroupOf(before, "Sandwich")) - Synthesized
        /\ Len(GroupOf(sorted_mev, "Jit")) = Len(GroupOf(before, "Jit")) - Synthesized
        /\ Cardinality({b \in Range(GroupOf(before, "Sandwich")) : ComposedWith(b) # {}})
              = Synthesized
        /\ Cardinality({b \in Range(GroupOf(before, "Jit")) : ComposedWith(b) # {}})
              = Synthesized
        /\ Len(GroupOf(sorted_mev, "Sandwich")) + Len(GroupOf(sorted_mev, "JitSandwich"))
              = Len(GroupOf(before, "Sandwich")) + Len(GroupOf(before, "JitSandwich"))
        /\ Len(GroupOf(sorted_mev, "Jit")) + Len(GroupOf(sorted_mev, "JitSandwich"))
              = Len(GroupOf(before, "Jit")) + Len(GroupOf(before, "JitSandwich"))
        /\ \A k \in MevTypes \ {"Sandwich", "Jit", "JitSandwich"} :
              GroupOf(sorted_mev, k) = GroupOf(before, k)

\* one JitSandwich was made of one of two Sandwich bundles and the only Jit
\* bundle, which both of them overlap
C30_Witness ==
    /\ ComposeApplied
    /\ Synthesized = 1
    /\ Len(GroupOf(before, "Sandwich")) = 2
    /\ Len(GroupOf(before, "Jit")) = 1
    /\ \A s \in Range(GroupOf(before, "Sandwich")) : ShareHash(s, before["Jit"][1])
    /\ Len(GroupOf(sorted_mev, "Sandwich")) = 1
    /\ GroupOf(sorted_mev, "Jit") = <<>>

\* the table has a compose entry whose dependency list is not of two kinds
Malformed(table) ==
    \E k \in DOMAIN table : table[k].compose /\ Len(table[k].deps) # 2

\* C19: a table with a compose entry whose dependency list does not have
\* exactly two kinds is fatal when the table is constructed: no bundle of a
\* block is grouped and no entry of the table is applied under such a table.
C19_MalformedTableFatalAtStartup ==
    Malformed(mev_filter) => (sorted_mev = <<>> /\ entry = 0 /\ rpc # "ready")

\* C28: a filter entry K => D1..Dm leaves in place every bundle of a kind Di
\* that shares no hash with any K bundle, however many K bundles there are,
\* and changes neither the K group nor the group of a kind it does not list.
C28_FilterRemovesOnlyMatches ==
    FilterApplied =>
        /\ \A d \in Range(LastEntry.deps) :
              \A b \in Range(GroupOf(before, d)) :
                  (\A k \in Range(GroupOf(before, LastEntry.head)) : ~ShareHash(b, k))
                  => b \in Range(GroupOf(sorted_mev, d))
        /\ \A t \in MevTypes \ Range(LastEntry.deps) :
              GroupOf(sorted_mev, t) = GroupOf(before, t)

\* C23: the entries are applied in the declared order, each on the groups
\* the one before left: once the third entry (Sandwich => CexDex) is applied
\* no Backrun is left that shares a hash with a CexDex bundle the third
\* entry worked on, and when the compose entry is applied no Backrun and no
\* CexDex bundle is left that shares a hash with a Sandwich available to it.
C23_TableOrder ==
    /\ (rpc = "table" /\ entry = 3) =>
          \A c \in Range(GroupOf(before, "CexDex")) :
              \A b \in Range(GroupOf(sorted_mev, "Backrun")) : ~ShareHash(b, c)
    /\ ComposeApplied =>
          \A s \in Range(GroupOf(before, "Sandwich")) :
              \A x \in Range(GroupOf(before, "Backrun")) \cup Range(GroupOf(before, "CexDex")) :
                  ~ShareHash(s, x)

(***************************************************************************)
(* Properties of the Composer future                                       *)
(***************************************************************************)
\* every bundle an inspector returned
AllReturned == UNION {Range(tasks[i].out) : i \in DOMAIN tasks}

\* C4: the Composer stays Pending and produces no output until every spawned
\* inspector task has completed, in whatever order they finish; resolution
\* runs once, after all bundle sequences were collected, on the bundles of
\* all inspectors.
C4_PendingUntilAllDone ==
    /\ (\E i \in DOMAIN tasks : tasks[i].state # "done") =>
          /\ composer # "ready"
          /\ lastPoll.ret # "ready"
          /\ runs = 0
          /\ output = NoOutput
    /\ composer = "ready" =>
          /\ runs = 1
          /\ Range(collected) = AllReturned
          /\ collected = Concat([i \in DOMAIN tasks |-> tasks[i].out])
          /\ \E order \in ValueOrders(ApplyTable(GroupByKind(collected, <<>>), 1)) :
                output = OnOrchestraResolution(collected, order)
    /\ runs <= 1

\* the last inspector finished first and a poll then returned Pending; the
\* result holds a bundle of the first and of the last inspector
C4_Witness ==
    /\ composer = "ready"
    /\ lastPoll.finished = {NumInspectors}
    /\ \E a, b \in Range(output.mev) :
          /\ a.mev_type = InspectorKinds[1]
          /\ b.mev_type = InspectorKinds[NumInspectors]

\* the bundles left in the groups after the table was applied to the collected bundles
Survivors ==
    LET m == ApplyTable(GroupByKind(collected, <<>>), 1)
    IN UNION {Range(m[k]) : k \in DOMAIN m}

\* C14: every bundle of the final result has strictly positive
\* finalized_profit_usd, every bundle that survives the table with strictly
\* positive profit is in the result (once), mev_count is the length of the
\* returned sequence, and a block without a profitable bundle gives a
\* successful result with an empty sequence and count 0.
C14_OnlyProfitableReturned ==
    composer = "ready" =>
        /\ \A i \in DOMAIN output.mev : output.mev[i].finalized_profit_usd > 0
        /\ Range(output.mev) = {b \in Survivors : b.finalized_profit_usd > 0}
        /\ Len(output.mev) = Cardinality(Range(output.mev))
        /\ output.header.mev_count = Len(output.mev)
        /\ (\A b \in Range(collected) : b.finalized_profit_usd <= 0) =>
              (output.mev = <<>> /\ output.header.mev_count = 0)

\* a bundle with profit 0 survived the table and is left out of a result that
\* holds a profitable bundle
C14_Witness ==
    /\ composer = "ready"
    /\ \E b \in Survivors : b.finalized_profit_usd = 0
    /\ output.header.mev_count = 1

\* an inspector task has ended with a panic
SomeTaskFailed == \E i \in DOMAIN tasks : tasks[i].state = "failed"

\* C31: once an inspector task has ended abnormally the Composer never
\* becomes ready: on_orchestra_resolution does not run, no header and no
\* bundle are produced from what the other inspectors returned, and the poll
\* that finds every task ended panics.
C31_FailedTaskFailsBlock ==
    /\ SomeTaskFailed =>
          /\ composer # "ready"
          /\ lastPoll.ret # "ready"
          /\ runs = 0
          /\ collected = <<>>
          /\ output = NoOutput
    /\ composer = "panicked" => (SomeTaskFailed /\ CollectReady)

\* the poll panicked although another inspector had returned a bundle
C31_Witness ==
    /\ composer = "panicked"
    /\ lastPoll.ret = "panicked"
    /\ \E i \in DOMAIN tasks : tasks[i].state = "done" /\ tasks[i].out # <<>>
    /\ Cardinality({i \in DOMAIN tasks : tasks[i].state = "failed"}) = 1

====
